---- MODULE Spec2Model ----
(***************************************************************************)
(* State-machine model of the serpfree scraper scheduler.                  *)
(*                                                                         *)
(* Spec       models SERPScraper of src/src/scraper-provider/              *)
(*            GoogleSERPContext.ts lines 500-1712 (the variant with a      *)
(*            priority queue and the pendingGoogleTasks holding area),     *)
(*            with the history of the cancel() calls.                      *)
(* SpecRetry  is the same machine with the history of the execution        *)
(*            attempts instead.                                            *)
(* SpecRecover is the same machine with the history of the recovery of a    *)
(*            task after a captcha page instead.                           *)
(* SpecStatus is the same machine with clients that call getStatus().      *)
(* SpecFifo   models SERPScraper of src/unnamed/part_002 (the variant with  *)
(*            a first-in first-out queue, whose reset puts the held tasks  *)
(*            back with one unshift() per task), with weak fairness of     *)
(*            every step the scraper takes by itself.                      *)
(* SpecFacade models SERPScraper of src/unnamed/part_003 (the facade that   *)
(*            owns a general and a Chrome context and routes each search   *)
(*            to one of them).                                             *)
(* SpecExtract models the result extraction of PreprocessService           *)
(*            (src/unnamed/part_001) on one page, element by element.      *)
(* SpecBatch  models SERPScraper of the same file, lines 1777-2981 (the    *)
(*            variant whose processQueue() runs a batch of tasks           *)
(*            concurrently and whose failed resets are retried by a        *)
(*            timer).                                                      *)
(*                                                                         *)
(* JavaScript runs every handler to completion between two awaits, so each *)
(* handler segment is a pure operator from a state record to a state       *)
(* record (S is the record of the current state, Commit(s) installs one);  *)
(* a synchronous call such as search() -> processQueue() is the            *)
(* composition of the operators.  An await on real I/O (connect, newPage,  *)
(* goto, pages, the cooldown timer) ends a segment; its result is chosen   *)
(* by the action that resumes the handler.                                 *)
(***************************************************************************)
EXTENDS Integers, Sequences, FiniteSets, TLC

\* ------------------------------------------------------------- bounds
MaxTabs == 3          \* constructor argument maxTabs
MaxQueueSize == 1     \* constructor argument maxQueueSize
MaxTasks == 2         \* number of search() calls that create a task
MaxPool == 4          \* tab objects the browser can hold before newPage fails
MaxAttempts == 4      \* cap of the attempts history counter

\* ---------------------------------------------------- program constants
MAX_RETRIES == 2
NORMAL == 0
GOOGLE_TASK == 1

GOOGLE == "google"
BING == "bing"
Engines == {GOOGLE, BING}
TaskIds == 1..MaxTasks
NoTask == 0

VARIABLES
  browser,                \* this.browser # null
  browserHealthy,
  browserInitializing,
  initializing,           \* this.initializing: "null" | "pending" | "settled"
  ready,
  googleContext,          \* this.googleContext # null
  googleContextResetting,
  cleanUpIntervalId,      \* the idle-cleanup interval is installed
  tabPool,                \* sequence of [contextType, busy, users]
  taskQueue,              \* sequence of task ids
  pendingGoogleTasks,     \* sequence of task ids
  task,                   \* task id -> [engine, cancelled, retries, priority, handle]
  nextId,                 \* number of tasks created so far
  processingQueue,
  disp,                   \* where the processQueue pass is suspended: [pc, t]
  executing,              \* tasks whose executeSearch call has not returned
  launchPc,               \* launchBrowser: "idle" | "connecting"
  resetPc,                \* resetGoogleContext: "idle" | "cooldown" | "awaitLaunch"
  timers,                 \* pending setImmediate / setTimeout callbacks
  searchWait,             \* a search() call suspended before its queue check
  batch,                  \* the fields and suspended calls only the batch
                          \* variant has (constant in the other one)
  testTask,               \* the task whose promise launchBrowser() awaits
                          \* (FIFO variant), NoTask if there is none
  extraction,             \* one run of the result extraction on a page:
                          \* [page, pos, rank, results]
  status,                 \* what the getStatus() call of this step returned
  facade,                 \* the fields of the scraper that owns a general
                          \* and a Chrome context, its suspended calls and
                          \* its search() call in progress
  hist,                   \* history of each task (not program state)
  track                   \* the part of the history a specification records

vars == << browser, browserHealthy, browserInitializing, initializing, ready,
           googleContext, googleContextResetting, cleanUpIntervalId, tabPool,
           taskQueue, pendingGoogleTasks, task, nextId, processingQueue,
           disp, executing, launchPc, resetPc, timers, searchWait, batch,
           testTask, extraction, status, facade, hist, track >>

\* The current state as a record, and the action installing a record.
S == [ browser |-> browser, browserHealthy |-> browserHealthy,
       browserInitializing |-> browserInitializing,
       initializing |-> initializing, ready |-> ready,
       googleContext |-> googleContext,
       googleContextResetting |-> googleContextResetting,
       cleanUpIntervalId |-> cleanUpIntervalId, tabPool |-> tabPool,
       taskQueue |-> taskQueue,
       pendingGoogleTasks |-> pendingGoogleTasks, task |-> task,
       nextId |-> nextId, processingQueue |-> processingQueue, disp |-> disp,
       executing |-> executing, launchPc |-> launchPc, resetPc |-> resetPc,
       timers |-> timers, searchWait |-> searchWait, batch |-> batch,
       testTask |-> testTask, extraction |-> extraction, status |-> status,
       facade |-> facade,
       hist |-> hist, track |-> track ]

\* A task object is garbage once neither a collection nor a suspended
\* handler refers to it: only its handle and its cancelled flag are kept.
\* Of the history, a specification keeps the part named by track: the cancel
\* requests (as long as the handle is not rejected), the attempts, or the
\* phase of the recovery after a captcha.
Garbage(s, t) ==
  /\ s.task[t].handle # "new"
  /\ \A i \in 1..Len(s.taskQueue) : s.taskQueue[i] # t
  /\ \A i \in 1..Len(s.pendingGoogleTasks) : s.pendingGoogleTasks[i] # t
  /\ t \notin s.executing
  /\ s.disp.t # t
  /\ s.batch.acquiring[t] = "none"
  /\ s.testTask # t

\* No getStatus() call in this step.
NoStatus ==
  [returned |-> FALSE, queueLength |-> 0, cancelledInQueue |-> 0,
   tasksByEngine |-> [e \in Engines |-> 0], totalTabs |-> 0,
   googleTabs |-> 0, defaultTabs |-> 0, busyTabs |-> 0,
   googleContextActive |-> FALSE, pendingGoogleTasks |-> 0,
   googleContextResetting |-> FALSE, browserInitializing |-> FALSE,
   browserHealthy |-> FALSE, ready |-> FALSE]

collect(s) ==
  [s EXCEPT
     !.status = NoStatus,
     !.task = [t \in DOMAIN @ |->
       IF Garbage(s, t)
         THEN [engine |-> "google", cancelled |-> @[t].cancelled,
               retries |-> 0, priority |-> 0, handle |-> @[t].handle]
         ELSE @[t]],
     !.hist = [t \in DOMAIN @ |->
       CASE s.track = "cancel" ->
              [attempts |-> 0, onlyTransient |-> TRUE,
               cancelRequested |->
                 /\ @[t].cancelRequested
                 /\ s.task[t].handle \in {"pending", "resolved"},
               phase |-> "none"]
         [] s.track = "recover" ->
              [attempts |-> 0, onlyTransient |-> TRUE,
               cancelRequested |-> FALSE, phase |-> @[t].phase]
         [] s.track = "status" ->
              [attempts |-> 0, onlyTransient |-> TRUE,
               cancelRequested |-> FALSE, phase |-> "none"]
         [] OTHER ->
              [@[t] EXCEPT !.cancelRequested = FALSE, !.phase = "none"]]]

\* The state s becomes the current one.
Install(s) ==
  /\ browser' = s.browser
  /\ browserHealthy' = s.browserHealthy
  /\ browserInitializing' = s.browserInitializing
  /\ initializing' = s.initializing
  /\ ready' = s.ready
  /\ googleContext' = s.googleContext
  /\ googleContextResetting' = s.googleContextResetting
  /\ cleanUpIntervalId' = s.cleanUpIntervalId
  /\ tabPool' = s.tabPool
  /\ taskQueue' = s.taskQueue
  /\ pendingGoogleTasks' = s.pendingGoogleTasks
  /\ task' = s.task
  /\ nextId' = s.nextId
  /\ processingQueue' = s.processingQueue
  /\ disp' = s.disp
  /\ executing' = s.executing
  /\ launchPc' = s.launchPc
  /\ resetPc' = s.resetPc
  /\ timers' = s.timers
  /\ searchWait' = s.searchWait
  /\ batch' = s.batch
  /\ testTask' = s.testTask
  /\ extraction' = s.extraction
  /\ status' = s.status
  /\ facade' = s.facade
  /\ hist' = s.hist
  /\ track' = s.track

\* A handler has run and left the state s0.
Commit(s0) == Install(collect(s0))

\* ------------------------------------------------------------ helpers
Range(q) == { q[i] : i \in 1..Len(q) }

Max(a, b) == IF a > b THEN a ELSE b

Min(a, b) == IF a < b THEN a ELSE b

NewTaskRec == [engine |-> GOOGLE, cancelled |-> FALSE, retries |-> 0,
               priority |-> NORMAL, handle |-> "new"]

\* attempts: executions started so far, counted as long as every finished one
\* ended in a connection error (onlyTransient); cancelRequested: the cancel
\* closure was called while the handle was not settled; phase: where the
\* task stands after a captcha page:
\*   "poisoned"  its execution saw a captcha and it was not bound since
\*   "recreated" a reset has created and tested a new context since
\*   "again"     it was bound again after that ("early": before that)
\*   "againOk"   that execution extracted results
NewHist == [attempts |-> 0, onlyTransient |-> TRUE, cancelRequested |-> FALSE,
            phase |-> "none"]

IdleDisp == [pc |-> "idle", t |-> NoTask]

NoTimers == [processQueue |-> FALSE, reset |-> FALSE, recoveryCheck |-> FALSE,
             launchBrowser |-> FALSE, restart |-> FALSE]

\* turn: the parity of the number of launches the suspended call has started
\* (FIFO variant; not program state).
NoSearch == [waiting |-> FALSE, full |-> FALSE, turn |-> 0]

\* googleHealthy and concurrentSearches are fields of the batch variant;
\* googleInit: the createGoogleContext().then(...) chain started by
\* launchBrowser() has not settled; acquiring[t]: where the processTask call
\* of t stands in getAvailableTab(), got[t] the pool position it returned;
\* cycles: resetGoogleContext() calls suspended in their cooldown;
\* retryTimers: pending 10 s retry timers of failed resets.
NoBatch == [googleHealthy |-> FALSE, concurrentSearches |-> 0,
            googleInit |-> FALSE,
            acquiring |-> [t \in TaskIds |-> "none"],
            got |-> [t \in TaskIds |-> 0],
            cycles |-> 0, retryTimers |-> 0]

\* let rank = 1; const results = [] (no page loaded yet)
NoExtraction == [page |-> <<>>, pos |-> 0, rank |-> 1, results |-> <<>>]

\* No search() call of the facade in progress.  pc: the await the call is
\* suspended in; to: the branch the call took; out: "sent" once the search()
\* of a context was called, "thrown" once the call threw; sawBase,
\* sawChrome: the contexts that existed when it took the branch (not program
\* state).
NoCall == [pc |-> "none", engine |-> GOOGLE, to |-> "none", out |-> "none",
           sawBase |-> FALSE, sawChrome |-> FALSE]

\* The facade before its constructor has run.  maxTabs: the field maxTabs;
\* baseMaxTabs, chromeMaxTabs: the maxTabs argument the context object that
\* exists was constructed with (0: there is none).  baseLoop, chromeLoop: where
\* runBaseTestLoop() / runChromeTestLoop() stand ("none" | "testing" |
\* "closing" | "init" | "resolved" | "rejected"); launchPc, closePc: where
\* launchBrowser() and closeBrowser() are suspended; closeBy: the caller of
\* closeBrowser(); baseInit, chromeInit: the field initComplete of the
\* context object.
NoFacade ==
  [pc |-> "new", enableChromeContext |-> FALSE, onlyGoogle |-> FALSE,
   onlyBase |-> FALSE, browser |-> FALSE, baseContext |-> FALSE,
   chromeContext |-> FALSE, baseInit |-> FALSE, chromeInit |-> FALSE,
   baseReady |-> FALSE, chromeReady |-> FALSE,
   baseReadyPromise |-> FALSE, chromeReadyPromise |-> FALSE,
   cleanUpIntervalId |-> FALSE, launchPc |-> "idle", closePc |-> "idle",
   closeBy |-> "none", baseLoop |-> "none", chromeLoop |-> "none",
   relaunchTimer |-> FALSE, call |-> NoCall,
   maxTabs |-> 0, baseMaxTabs |-> 0, chromeMaxTabs |-> 0]

contextTypeOf(e) == IF e = GOOGLE THEN "google" ELSE "default"

\* task.reject(err) / task.resolve(results): a settled promise stays settled.
settle(s, t, how) ==
  IF s.task[t].handle = "pending"
    THEN [s EXCEPT !.task[t].handle = how]
    ELSE s

RECURSIVE settleAll(_, _, _)
settleAll(s, q, how) ==
  IF q = <<>> THEN s ELSE settleAll(settle(s, Head(q), how), Tail(q), how)

\* this.tabPool.push({page, busy: false, lastUsed, contextType})
pushTab(s, ct) ==
  [s EXCEPT !.tabPool =
     Append(s.tabPool, [contextType |-> ct, busy |-> FALSE, users |-> {}])]

TabsOfType(s, ct) == SelectSeq(s.tabPool, LAMBDA tb : tb.contextType = ct)

\* Positions of the pool holding a tab that is not busy, whatever its type.
FreeTabsOfAnyType(s, ct) ==
  { i \in 1..Len(s.tabPool) : ~s.tabPool[i].busy }

\* Positions of the pool holding a tab of the type that is not busy.
FreeTabs(s, ct) ==
  { i \in 1..Len(s.tabPool) :
      s.tabPool[i].contextType = ct /\ ~s.tabPool[i].busy }

FirstFree(s, ct) ==
  CHOOSE i \in FreeTabs(s, ct) : \A j \in FreeTabs(s, ct) : i <= j

\* ------------------------------------------------- browser life cycle
\* Every task of the queue and of the holding area is rejected and left
\* where it is.
rejectAllRequests(s) ==
  settleAll(s, s.taskQueue \o s.pendingGoogleTasks, "rej_all_cancelled")

\* cancelAllRequests(): every task of the queue and of the holding area is
\* flagged, aborted and rejected; both collections are emptied.
cancelAllRequests(s) ==
  LET all == s.taskQueue \o s.pendingGoogleTasks
      s1 == [s EXCEPT !.task = [t \in DOMAIN s.task |->
                IF t \in Range(all)
                  THEN [s.task[t] EXCEPT !.cancelled = TRUE]
                  ELSE s.task[t]]]
      s2 == settleAll(s1, all, "rej_all_cancelled")
  IN [s2 EXCEPT !.taskQueue = <<>>, !.pendingGoogleTasks = <<>>]

\* closeBrowser().  The awaits on page.close() and browser.close() are taken
\* in one step with the rest of the call.
closeBrowser(s) ==
  LET s1 == cancelAllRequests([s EXCEPT !.cleanUpIntervalId = FALSE])
  IN [s1 EXCEPT !.tabPool = <<>>, !.googleContext = FALSE, !.browser = FALSE,
                !.browserHealthy = FALSE, !.ready = FALSE]

\* createGoogleContext() succeeds when the browser is there and healthy and
\* createBrowserContext()/newPage() succeed (ok); the browser refuses a new
\* page once it holds MaxPool of them.
createGoogleContextOk(s, ok) ==
  s.browser /\ s.browserHealthy /\ ok /\ Len(s.tabPool) < MaxPool

\* On success the new context replaces the old one and its first page is
\* pushed on the pool, whatever the pool already holds.
createGoogleContext(s, ok) ==
  IF createGoogleContextOk(s, ok)
    THEN pushTab([s EXCEPT !.googleContext = TRUE], "google")
    ELSE s

\* A test that passes whatever the state of the context.
testAlwaysPasses(s, ok) == TRUE

\* runGoogleContextTest() returns normally iff there is a context and the
\* test search works (ok); otherwise it throws.
runGoogleContextTestOk(s, ok) == s.googleContext /\ ok

runGoogleContextTest(s, ok) ==
  [s EXCEPT !.ready = runGoogleContextTestOk(s, ok)]

\* launchBrowser() up to `await connect(...)`.  A call made while another
\* launch is in progress returns at once.
launchBrowser(s) ==
  IF s.browserInitializing
    THEN s
    ELSE LET s1 == [s EXCEPT !.browserInitializing = TRUE, !.ready = FALSE]
             s2 == IF s1.browser THEN closeBrowser(s1) ELSE s1
         IN [s2 EXCEPT !.launchPc = "connecting"]

\* The rest of launchBrowser() once connect() has settled.
\*   "ok"          connect, first page, Google context and test all succeed
\*   "initFail"    connect succeeds, a later step of the initialization throws
\*   "connectFail" connect throws
launchBrowserResume(s, outcome) ==
  LET connected == [s EXCEPT !.browser = TRUE, !.browserHealthy = TRUE,
                             !.tabPool = <<>>]
      body ==
        CASE outcome = "ok" ->
               [runGoogleContextTest(
                  createGoogleContext(pushTab(connected, "default"), TRUE),
                  TRUE)
                EXCEPT !.cleanUpIntervalId = TRUE]
          [] outcome = "initFail" ->
               [closeBrowser([connected EXCEPT !.browserHealthy = FALSE])
                EXCEPT !.timers.launchBrowser = TRUE]
          [] OTHER -> [s EXCEPT !.browserHealthy = FALSE]
  IN [body EXCEPT !.browserInitializing = FALSE, !.initializing = "null",
                  !.launchPc = "idle"]

\* this.initializing = this.launchBrowser(): a call made during a launch
\* returns the promise of that launch if this.initializing holds it, and an
\* already settled promise otherwise.
assignInitializing(s) ==
  [launchBrowser(s) EXCEPT !.initializing =
     IF s.browserInitializing /\ s.initializing # "pending"
       THEN "settled" ELSE "pending"]

\* recoveryCheck() has to wait for a launch: the browser is unhealthy and
\* null, and launchBrowser() does not return a settled promise.
recoveryCheckWaits(s) ==
  /\ ~s.browserHealthy
  /\ ~s.browser
  /\ (~s.browserInitializing \/ s.initializing = "pending")

\* recoveryCheck().  With a browser object the probe page, the new Google
\* context and the test are taken in one step:
\*   "ok"       all succeed
\*   "testFail" the probe succeeds, the context test throws
\*   "fail"     the probe page throws
recoveryCheck(s, rout) ==
  IF s.browserHealthy THEN s
  ELSE IF s.browser THEN
    IF rout = "fail"
      THEN [s EXCEPT !.timers.restart = TRUE]
      ELSE LET s1 == createGoogleContext([s EXCEPT !.browserHealthy = TRUE],
                                         TRUE)
               s2 == runGoogleContextTest(s1, rout = "ok")
           IN IF s2.ready THEN s2 ELSE [s2 EXCEPT !.timers.restart = TRUE]
  ELSE assignInitializing(s)

\* ---------------------------------------------------------- dispatcher
\* Array.prototype.sort with (a, b) => b.priority - a.priority is stable.
sortByPriority(s, q) ==
  SelectSeq(q, LAMBDA t : s.task[t].priority = GOOGLE_TASK)
    \o SelectSeq(q, LAMBDA t : s.task[t].priority # GOOGLE_TASK)

maxTabsForContext(ct) ==
  IF ct = "google"
    THEN Max(1, MaxTabs \div 2)
    ELSE Max(1, MaxTabs - (MaxTabs \div 2))

\* The finally block of processQueue().
passFinally(s) ==
  LET s1 == [s EXCEPT !.processingQueue = FALSE, !.disp = IdleDisp]
  IN IF Len(s1.taskQueue) > 0 /\ s1.browserHealthy /\ ~s1.browserInitializing
       THEN [s1 EXCEPT !.timers.processQueue = TRUE]
       ELSE s1

\* tab.busy = true; executeSearch(tab, task) starts and runs up to its first
\* await (a task already flagged cancelled leaves it at once, and the
\* finally callback frees the tab again).
bindTab(s, t, i) ==
  IF s.task[t].cancelled
    THEN s
    ELSE [s EXCEPT !.tabPool[i].busy = TRUE,
                   !.tabPool[i].users = @ \cup {t},
                   !.executing = @ \cup {t},
                   !.hist[t].attempts =
                     IF s.hist[t].onlyTransient /\ @ < MaxAttempts
                       THEN @ + 1 ELSE @,
                   !.hist[t].phase =
                     CASE @ = "poisoned" -> "early"
                       [] @ = "recreated" -> "again"
                       [] OTHER -> @]

RECURSIVE dispatchLoop(_)

\* The code after `await this.getAvailableTab(...)` returned pool entry i.
afterGetAvailableTab(s, t, i) ==
  IF s.task[t].cancelled
    THEN dispatchLoop(settle(s, t, "rej_cancelled"))
    ELSE dispatchLoop(bindTab(s, t, i))

\* getAvailableTab() from `currentTabsOfType` on: a free tab of the type, or
\* the wait for one when the type is at its cap, or the creation of a tab.
findOrCreateTab(s, t) ==
  LET ct == contextTypeOf(s.task[t].engine) IN
  IF FreeTabs(s, ct) # {}
    THEN afterGetAvailableTab(s, t, FirstFree(s, ct))
  ELSE IF Len(TabsOfType(s, ct)) >= maxTabsForContext(ct)
    THEN [s EXCEPT !.disp = [pc |-> "waitTab", t |-> t]]
    ELSE [s EXCEPT !.disp = [pc |-> "newPage", t |-> t]]

\* getAvailableTab() up to its first await.  processQueue() has just seen the
\* browser healthy and the context not resetting, so the two waits at the top
\* are passed; a Google task then awaits ensureGoogleContext().
getAvailableTab(s, t) ==
  IF s.task[t].engine = GOOGLE
    THEN [s EXCEPT !.disp = [pc |-> "ensure", t |-> t]]
    ELSE findOrCreateTab(s, t)

\* The catch block of the loop body of processQueue() for an error thrown by
\* getAvailableTab(); kind tells whether the message contains "context" or
\* "Protocol error".  recoveryCheck() is taken in the same step unless it
\* has to wait for a launch.
dispatchCatch(s, t, kind, rout) ==
  IF s.task[t].cancelled THEN dispatchLoop(s)
  ELSE IF s.task[t].engine = GOOGLE /\ kind = "context" THEN
    LET s1 == IF s.task[t].retries < MAX_RETRIES
                THEN [s EXCEPT !.task[t].retries = @ + 1,
                               !.taskQueue = Append(@, t)]
                ELSE settle(s, t, "rej_max_retries")
        s2 == [s1 EXCEPT !.browserHealthy = FALSE]
    IN IF recoveryCheckWaits(s2)
         THEN [recoveryCheck(s2, rout) EXCEPT
                 !.disp = [pc |-> "awaitLaunch", t |-> NoTask]]
         ELSE dispatchLoop(recoveryCheck(s2, rout))
  ELSE dispatchLoop(settle(s, t, "rej_error"))

\* One iteration of the while loop of processQueue(), followed by the next
\* ones until the pass suspends in an await or ends.
dispatchLoop(s) ==
  IF s.taskQueue = <<>> THEN passFinally(s)
  ELSE IF s.browserInitializing \/ ~s.browserHealthy THEN passFinally(s)
  ELSE
    LET sorted == sortByPriority(s, s.taskQueue)
        validTasks == SelectSeq(sorted, LAMBDA t : ~s.task[t].cancelled)
        cancelledTasks == SelectSeq(sorted, LAMBDA t : s.task[t].cancelled)
        s1 == [settleAll(s, cancelledTasks, "rej_cancelled")
                 EXCEPT !.taskQueue = validTasks]
    IN IF validTasks = <<>> THEN passFinally(s1)
       ELSE IF s.task[Head(validTasks)].engine = GOOGLE
                 /\ s.googleContextResetting
         THEN passFinally(s1)
         ELSE getAvailableTab([s1 EXCEPT !.taskQueue = Tail(validTasks)],
                              Head(validTasks))

\* processQueue()
processQueue(s) ==
  IF s.processingQueue \/ s.taskQueue = <<>>
    THEN s
    ELSE dispatchLoop([s EXCEPT !.processingQueue = TRUE])

\* getAvailableTab() resumed after `await this.ensureGoogleContext()`:
\*   "valid"     googleContext.pages() answers
\*   "recreated" the context is missing or dead and createGoogleContext() works
\*   "failed"    it is missing or dead and createGoogleContext() returns null
resumeEnsure(s, o, rout) ==
  LET t == s.disp.t
      kept == s.googleContext /\ o = "valid"
      dropped == [s EXCEPT !.googleContext = FALSE]
      s1 == IF kept THEN s ELSE createGoogleContext(dropped, o = "recreated")
      got == kept \/ createGoogleContextOk(dropped, o = "recreated")
  IN IF got THEN findOrCreateTab(s1, t)
            ELSE dispatchCatch(s1, t, "context", rout)

\* getAvailableTab() resumed by its poll once a tab of the type is free.
resumeWaitTab(s) ==
  afterGetAvailableTab(s, s.disp.t,
                       FirstFree(s, contextTypeOf(s.task[s.disp.t].engine)))

\* The catch block of getAvailableTab(): a failed Google tab marks the
\* browser unhealthy and runs recoveryCheck() before the error goes on to
\* processQueue().
createTabFailed(s, t, kind, rout) ==
  IF s.task[t].engine = GOOGLE
    THEN LET s1 == [s EXCEPT !.browserHealthy = FALSE] IN
         IF recoveryCheckWaits(s1)
           THEN [recoveryCheck(s1, rout) EXCEPT
                   !.disp = [pc |-> "awaitLaunchThrow", t |-> t]]
           ELSE dispatchCatch(recoveryCheck(s1, rout), t, kind, rout)
    ELSE dispatchCatch(s, t, kind, rout)

\* getAvailableTab() resumed in "Create a new tab": for a Google task the
\* second ensureGoogleContext() and context.newPage(), otherwise
\* browser.newPage().  o is "ok", "failContext" or "failOther" (the words
\* of the error message).
resumeNewPage(s, o, rout) ==
  LET t == s.disp.t
      ct == contextTypeOf(s.task[t].engine)
      s1 == IF ct = "google" /\ ~s.googleContext
              THEN createGoogleContext(s, o = "ok") ELSE s
      can == /\ o = "ok"
             /\ s1.browser
             /\ ct = "google" => s1.googleContext
             /\ Len(s1.tabPool) < MaxPool
      s2 == pushTab(s1, ct)
  IN IF can
       THEN afterGetAvailableTab(s2, t, Len(s2.tabPool))
       ELSE createTabFailed(s1, t,
              IF o = "failOther" THEN "other" ELSE "context", rout)

\* ------------------------------------------------------- executeSearch
releaseTab(s, t) ==
  [s EXCEPT !.executing = @ \ {t},
            !.tabPool = [i \in 1..Len(@) |->
               IF t \in @[i].users
                 THEN [@[i] EXCEPT !.busy = FALSE, !.users = @ \ {t}]
                 ELSE @[i]]]

\* The page of the running task is still in the pool (it is closed whenever
\* it is taken out of it).
TabOpen(s, t) == \E i \in 1..Len(s.tabPool) : t \in s.tabPool[i].users

\* The phase of the history of a task whose execution ends with outcome o.
phaseAfter(p, o, c) ==
  CASE p = "early" -> "early"
    [] o = "captcha" /\ ~c -> "poisoned"
    [] o = "ok" /\ p = "again" -> "againOk"
    [] OTHER -> "none"

\* executeSearch(tab, task) from the navigation to its return, and the
\* finally callback that frees the tab.
\*   "ok"      results extracted
\*   "captcha" captcha page detected (Google)
\*   "conn"    error with "Protocol error" / "Target closed" / "Connection closed"
\*   "error"   any other error (navigation timeout, ...)
executeSearch(s, t, o) ==
  LET c == s.task[t].cancelled
      other == [s EXCEPT !.hist[t].onlyTransient = FALSE,
                         !.hist[t].attempts = 0]
      body ==
        CASE o = "ok" -> IF c THEN other ELSE settle(other, t, "resolved")
          [] o = "captcha" ->
               LET s1 == IF c THEN other
                         ELSE [other EXCEPT !.pendingGoogleTasks = Append(@, t),
                                        !.task[t].priority = GOOGLE_TASK,
                                        !.task[t].retries = 0]
               IN IF s.googleContextResetting THEN s1
                  ELSE [s1 EXCEPT !.timers.reset = TRUE]
          [] o = "conn" ->
               IF ~c /\ s.task[t].retries < MAX_RETRIES
                 THEN [s EXCEPT !.task[t].retries = @ + 1,
                                !.taskQueue = Append(@, t),
                                !.browserHealthy = FALSE,
                                !.timers.recoveryCheck = TRUE]
                 ELSE IF c THEN s ELSE settle(s, t, "rej_search_failed")
          [] OTHER -> IF c THEN other
                           ELSE settle(other, t, "rej_search_failed")
  IN [releaseTab(body, t) EXCEPT
        !.hist[t].phase = phaseAfter(@, o, c)]

\* -------------------------------------------------- resetGoogleContext
\* A pool emptied of every tab, whatever its context.
withoutAnyTabs(s) == <<>>

\* this.tabPool.filter((tab) => tab.contextType !== "google")
withoutGoogleTabs(s) ==
  SelectSeq(s.tabPool, LAMBDA tb : tb.contextType # "google")

\* resetGoogleContext() up to the cooldown await: the Google tasks of the
\* queue go to the holding area with priority GOOGLE_TASK and retries 0,
\* the Google tabs leave the pool and the context is dropped.
resetGoogleContext(s) ==
  IF s.googleContextResetting THEN s
  ELSE
    LET moved(t) == s.task[t].engine = GOOGLE /\ ~s.task[t].cancelled
        googleTasksInQueue == SelectSeq(s.taskQueue, moved)
    IN [s EXCEPT
          !.googleContextResetting = TRUE,
          !.ready = FALSE,
          !.taskQueue = SelectSeq(@, LAMBDA t : ~moved(t)),
          !.pendingGoogleTasks = @ \o googleTasksInQueue,
          !.task = [t \in DOMAIN s.task |->
                      IF t \in Range(googleTasksInQueue)
                        THEN [s.task[t] EXCEPT !.priority = GOOGLE_TASK,
                                               !.retries = 0]
                        ELSE s.task[t]],
          !.tabPool = withoutGoogleTabs(s),
          !.googleContext = FALSE,
          !.resetPc = "cooldown"]

\* A finally block that leaves googleContextResetting as it is.
resetReturn(s) == [s EXCEPT !.resetPc = "idle"]

\* The finally block of resetGoogleContext().
resetFinally(s) ==
  [s EXCEPT !.googleContextResetting = FALSE, !.resetPc = "idle"]

\* resetGoogleContext() after the cooldown.
\*   "ok"       createGoogleContext() and the test succeed
\*   "ctxFail"  createGoogleContext() returns null (its result is not looked at)
\*   "testFail" the context is created, the test throws
resumeReset(s, o, rout) ==
  LET s1 == createGoogleContext(s, o # "ctxFail")
      s2 == runGoogleContextTest(s1, o = "ok")
      tasksToRequeue == s2.pendingGoogleTasks
      requeued ==
        [s2 EXCEPT !.pendingGoogleTasks = <<>>,
                   !.taskQueue =
                     SelectSeq(tasksToRequeue,
                               LAMBDA t : ~s2.task[t].cancelled) \o @,
                   !.timers.processQueue = @ \/ Len(tasksToRequeue) > 0,
                   !.hist = [t \in DOMAIN s.task |->
                     IF /\ t \in Range(tasksToRequeue)
                        /\ s2.googleContext
                        /\ @[t].phase = "poisoned"
                       THEN [@[t] EXCEPT !.phase = "recreated"]
                       ELSE @[t]]]
      failed == [s2 EXCEPT !.browserHealthy = FALSE]
  IN IF runGoogleContextTestOk(s1, o = "ok") THEN resetFinally(requeued)
     ELSE IF recoveryCheckWaits(failed)
       THEN [recoveryCheck(failed, rout) EXCEPT !.resetPc = "awaitLaunch"]
       ELSE resetFinally(recoveryCheck(failed, rout))

\* ---------------------------------------------------- search / cancel
\* search() from the queue-size check on: the throw of "Queue is full", or
\* the new task, its push and the call of processQueue().
admit(s, e, full) ==
  IF Len(s.taskQueue) >= MaxQueueSize
    THEN [s EXCEPT !.searchWait = NoSearch]
    ELSE LET id == s.nextId + 1 IN
         processQueue(
           [s EXCEPT !.nextId = id,
                     !.task[id] = [NewTaskRec EXCEPT !.engine = e,
                                                     !.handle = "pending"],
                     !.taskQueue = Append(@, id),
                     !.searchWait = NoSearch])

\* search(query, e) up to its first await or to its return.
search(s, e) ==
  LET full == Len(s.taskQueue) >= MaxQueueSize
      wait(x) == [x EXCEPT !.searchWait =
                    [waiting |-> TRUE, full |-> full, turn |-> 0]]
  IN IF ~s.browser \/ ~s.browserHealthy \/ s.browserInitializing
       THEN IF s.initializing = "pending" THEN wait(s)
            ELSE IF s.initializing = "settled" \/ s.browserInitializing
              THEN admit(s, e, full)
              ELSE wait(launchBrowser(s))
       ELSE admit(s, e, full)

\* A cancel closure that flags the task without looking for it in the queue.
cancelAnywhere(s, t) ==
  [s EXCEPT !.task[t].cancelled = TRUE,
            !.taskQueue = SelectSeq(@, LAMBDA u : u # t)]

\* The cancel closure returned by search() for task t.
cancel(s, t) ==
  IF t \in Range(s.taskQueue)
    THEN [s EXCEPT !.task[t].cancelled = TRUE,
                   !.taskQueue = SelectSeq(@, LAMBDA u : u # t)]
    ELSE s

\* The cancel closure of the first scraper (scraper-provider/index.ts): the
\* task is flagged and stays in the queue.
cancelFlagOnly(s, t) ==
  IF t \in Range(s.taskQueue)
    THEN [s EXCEPT !.task[t].cancelled = TRUE]
    ELSE s

\* A call of the closure by a client, with its trace in the history.
cancelCall(s, t) ==
  [cancel(s, t) EXCEPT !.hist[t].cancelRequested =
                          @ \/ s.task[t].handle = "pending"]

\* What runs when the promise of a launch settles: the handlers awaiting it
\* (e is the engine argument of the suspended search() call, which that call
\* has not looked at yet).
afterLaunch(s, rout, e) ==
  LET s1 == IF s.resetPc = "awaitLaunch" THEN resetFinally(s) ELSE s
      s2 == CASE s1.disp.pc = "awaitLaunch" -> dispatchLoop(s1)
              [] s1.disp.pc = "awaitLaunchThrow" ->
                   dispatchCatch(s1, s1.disp.t, "context", rout)
              [] OTHER -> s1
  IN IF s2.searchWait.waiting
       THEN admit(s2, e, s2.searchWait.full)
       ELSE s2

\* The interval callback of startIdleTabCleanup(): per context type, when
\* the type has more than one tab, all idle tabs but the last are closed and
\* taken out of the pool.  idle is the set of pool positions whose tab has
\* not been used for tabIdleTimeout.
tabsToClose(s, idle, ct) ==
  LET ofType == { i \in 1..Len(s.tabPool) : s.tabPool[i].contextType = ct }
      idleOfType == { i \in ofType : i \in idle /\ ~s.tabPool[i].busy }
  IN IF Cardinality(ofType) > 1 /\ idleOfType # {}
       THEN idleOfType \ { CHOOSE i \in idleOfType :
                             \A j \in idleOfType : j <= i }
       ELSE {}

RECURSIVE removeAt(_, _, _)
removeAt(q, drop, i) ==
  IF i > Len(q) THEN <<>>
  ELSE IF i \in drop THEN removeAt(q, drop, i + 1)
  ELSE <<q[i]>> \o removeAt(q, drop, i + 1)

cleanupIdleTabs(s, idle) ==
  IF ~s.browserHealthy \/ s.browserInitializing THEN s
  ELSE [s EXCEPT !.tabPool =
          removeAt(@, tabsToClose(s, idle, "default")
                        \cup tabsToClose(s, idle, "google"), 1)]

\* ------------------------------------------------------------- actions
\* A mutant of getStatus: it counts the busy tabs by dropping the other ones
\* from the pool itself.
getStatusInPlace(s) ==
  [s EXCEPT !.tabPool = SelectSeq(@, LAMBDA tab : tab.busy),
            !.status.returned = TRUE]

\* getStatus(): the state it leaves, with the snapshot it returns in status.
getStatus(s) ==
  LET Count(q, P(_)) == Len(SelectSeq(q, P))
      active(t) == ~s.task[t].cancelled
  IN [s EXCEPT !.status =
       [returned |-> TRUE,
        queueLength |-> Count(s.taskQueue, active),
        cancelledInQueue |->
          Count(s.taskQueue, LAMBDA t : s.task[t].cancelled),
        tasksByEngine |->
          [e \in Engines |->
             Count(s.taskQueue,
                   LAMBDA t : active(t) /\ s.task[t].engine = e)],
        totalTabs |-> Len(s.tabPool),
        googleTabs |->
          Count(s.tabPool, LAMBDA tab : tab.contextType = "google"),
        defaultTabs |->
          Count(s.tabPool, LAMBDA tab : tab.contextType = "default"),
        busyTabs |-> Count(s.tabPool, LAMBDA tab : tab.busy),
        googleContextActive |-> s.googleContext,
        pendingGoogleTasks |-> Len(s.pendingGoogleTasks),
        googleContextResetting |-> s.googleContextResetting,
        browserInitializing |-> s.browserInitializing,
        browserHealthy |-> s.browserHealthy,
        ready |-> s.ready]]

RecoveryOutcomes == {"ok", "testFail", "fail"}

\* The state left by the constructor: launchBrowser() is awaiting connect().
Constructed ==
  /\ browser = FALSE
  /\ browserHealthy = FALSE
  /\ browserInitializing = TRUE
  /\ initializing = "pending"
  /\ ready = FALSE
  /\ googleContext = FALSE
  /\ googleContextResetting = FALSE
  /\ cleanUpIntervalId = FALSE
  /\ tabPool = <<>>
  /\ taskQueue = <<>>
  /\ pendingGoogleTasks = <<>>
  /\ task = [t \in TaskIds |-> NewTaskRec]
  /\ nextId = 0
  /\ processingQueue = FALSE
  /\ disp = IdleDisp
  /\ executing = {}
  /\ launchPc = "connecting"
  /\ resetPc = "idle"
  /\ timers = NoTimers
  /\ searchWait = NoSearch
  /\ batch = NoBatch
  /\ testTask = NoTask
  /\ extraction = NoExtraction
  /\ status = NoStatus
  /\ facade = NoFacade
  /\ hist = [t \in TaskIds |-> NewHist]

Init == Constructed /\ track = "cancel"

InitRetry == Constructed /\ track = "retry"

InitRecover == Constructed /\ track = "recover"

InitStatus == Constructed /\ track = "status"

\* connect() settles and launchBrowser() runs to its end.
Launch ==
  /\ launchPc = "connecting"
  /\ \E s \in { afterLaunch(launchBrowserResume(S, o), rout, e) :
                   o \in {"ok", "initFail", "connectFail"},
                   rout \in RecoveryOutcomes, e \in Engines } : Commit(s)

\* A client calls search(); at most one call is suspended at a time.
Search ==
  /\ ~searchWait.waiting
  /\ nextId < MaxTasks
  /\ \E e \in Engines : Commit(search(S, e))

\* A client calls the cancel closure of a task it submitted.
Cancel ==
  \E t \in DOMAIN task :
    /\ task[t].handle # "new"
    /\ Commit(cancelCall(S, t))

DispatchEnsure ==
  /\ disp.pc = "ensure"
  /\ \E s \in { resumeEnsure(S, o, rout) :
                   o \in {"valid", "recreated", "failed"}
                         \ (IF googleContext THEN {} ELSE {"valid"}),
                   rout \in RecoveryOutcomes } : Commit(s)

DispatchWaitTab ==
  /\ disp.pc = "waitTab"
  /\ FreeTabs(S, contextTypeOf(task[disp.t].engine)) # {}
  /\ Commit(resumeWaitTab(S))

DispatchNewPage ==
  /\ disp.pc = "newPage"
  /\ task[disp.t].engine = GOOGLE => ~googleContextResetting
  /\ \E s \in { resumeNewPage(S, o, rout) :
                   o \in {"ok", "failContext", "failOther"},
                   rout \in RecoveryOutcomes } : Commit(s)

\* o: results extracted, a captcha page, a connection error ("Protocol
\* error", "Target closed", "Connection closed"), a navigation timeout or
\* another error.
ExecuteSearch ==
  \E t \in executing, o \in {"ok", "captcha", "conn", "timeout", "error"} :
    /\ o \in {"ok", "captcha"} => TabOpen(S, t)
    /\ o = "captcha" => task[t].engine = GOOGLE
    /\ Commit(executeSearch(S, t, o))

\* setImmediate(() => this.processQueue())
TimerProcessQueue ==
  /\ timers.processQueue
  /\ Commit(processQueue([S EXCEPT !.timers.processQueue = FALSE]))

\* setImmediate(() => this.resetGoogleContext())
TimerReset ==
  /\ timers.reset
  /\ Commit(resetGoogleContext([S EXCEPT !.timers.reset = FALSE]))

\* The cooldown of resetGoogleContext() elapses.
ResetCooldown ==
  /\ resetPc = "cooldown"
  /\ \E s \in { resumeReset(S, o, rout) :
                   o \in {"ok", "ctxFail", "testFail"},
                   rout \in RecoveryOutcomes } : Commit(s)

\* setTimeout(() => this.recoveryCheck(), 1000)
TimerRecoveryCheck ==
  /\ timers.recoveryCheck
  /\ \E s \in { recoveryCheck([S EXCEPT !.timers.recoveryCheck = FALSE],
                                rout) : rout \in RecoveryOutcomes } : Commit(s)

\* setTimeout(() => this.launchBrowser(), 5000)
TimerLaunchBrowser ==
  /\ timers.launchBrowser
  /\ Commit(launchBrowser([S EXCEPT !.timers.launchBrowser = FALSE]))

\* setTimeout(() => this.closeBrowser().then(() =>
\*   { this.initializing = this.launchBrowser(); }), 5000)
TimerRestart ==
  /\ timers.restart
  /\ Commit(assignInitializing(
              closeBrowser([S EXCEPT !.timers.restart = FALSE])))

IdleCleanup ==
  /\ cleanUpIntervalId
  /\ \E s \in { cleanupIdleTabs(S, idle) :
                   idle \in SUBSET (FreeTabs(S, "default")
                                      \cup FreeTabs(S, "google")) } : Commit(s)

Next ==
  \/ Launch
  \/ Search
  \/ Cancel
  \/ DispatchEnsure
  \/ DispatchWaitTab
  \/ DispatchNewPage
  \/ ExecuteSearch
  \/ TimerProcessQueue
  \/ TimerReset
  \/ ResetCooldown
  \/ TimerRecoveryCheck
  \/ TimerLaunchBrowser
  \/ TimerRestart
  \/ IdleCleanup

Spec == Init /\ [][Next]_vars

SpecRetry == InitRetry /\ [][Next]_vars

SpecRecover == InitRecover /\ [][Next]_vars

\* A client calls getStatus().
GetStatus == \E s \in {getStatus(S)} : Install(s)

NextStatus ==
  \/ Next
  \/ GetStatus

SpecStatus == InitStatus /\ [][NextStatus]_vars

\* ------------------------------------------------------ batch variant
\* SERPScraper of GoogleSERPContext.ts lines 1777-2981: processQueue() hands
\* a whole batch of tasks to concurrent processTask calls.  The code that the
\* two variants share word for word (cancelAllRequests, the cancel closure,
\* the idle cleanup, the priority sort) is modelled once, above.
\*
\* A processTask call runs synchronously up to the await of getAvailableTab()
\* and goes on in a microtask when that promise is already settled; the
\* awaits on closing pages, on the existing context's pages() and on the
\* test search are taken in one step with the code around them.
BatchMaxQueueSize == 2  \* constructor argument maxQueueSize of the batch variant
MaxCycles == 2        \* reset cycles and retry timers alive at a time

BatchMaxTasks == 3      \* number of search() calls that create a task

BatchTaskIds == 1..BatchMaxTasks

maxConcurrentSearches == 20

batchMaxTabsForContext(ct) ==
  IF ct = "google"
    THEN Max(1, MaxTabs \div 3)
    ELSE Max(1, (MaxTabs * 2) \div 3)

batchCloseBrowser(s) ==
  [closeBrowser(s) EXCEPT !.batch.googleHealthy = FALSE]

\* createGoogleContext() returns a context: never during a reset, never
\* without a healthy browser; an existing context is reused, a new one is
\* created when createBrowserContext() and newPage() succeed (ok).
batchCreateGoogleContextOk(s, ok) ==
  /\ ~s.googleContextResetting
  /\ s.browser /\ s.browserHealthy
  /\ s.googleContext \/ ok

batchCreateGoogleContext(s, ok) ==
  IF batchCreateGoogleContextOk(s, ok) /\ ~s.googleContext
    THEN pushTab([s EXCEPT !.googleContext = TRUE], "google")
    ELSE s

\* runGoogleContextTest() returns normally.
batchRunGoogleContextTestOk(s, ok) ==
  ~s.googleContextResetting /\ s.googleContext /\ ok

\* launchBrowser() up to `await connect(...)`.
batchLaunchBrowser(s) ==
  IF s.browserInitializing
    THEN s
    ELSE LET s1 == [s EXCEPT !.browserInitializing = TRUE, !.ready = FALSE]
             s2 == IF s1.browser THEN batchCloseBrowser(s1) ELSE s1
         IN [s2 EXCEPT !.launchPc = "connecting"]

\* The rest of launchBrowser().  On "ok" the Google context is created and
\* tested without blocking: createGoogleContext() is called at once, and
\* when it returns null at once the test throws and googleHealthy is cleared.
batchLaunchBrowserResume(s, outcome) ==
  LET connected == [s EXCEPT !.browser = TRUE, !.browserHealthy = TRUE,
                             !.tabPool = <<>>]
      first == pushTab(connected, "default")
      body ==
        CASE outcome = "ok" ->
               [first EXCEPT
                  !.batch.googleInit = ~first.googleContextResetting,
                  !.batch.googleHealthy =
                     IF first.googleContextResetting THEN FALSE ELSE @,
                  !.cleanUpIntervalId = TRUE,
                  !.ready = TRUE]
          [] outcome = "initFail" -> [connected EXCEPT !.browserHealthy = FALSE]
          [] OTHER -> [s EXCEPT !.browserHealthy = FALSE]
  IN [body EXCEPT !.browserInitializing = FALSE, !.initializing = "null",
                  !.launchPc = "idle"]

\* The chain createGoogleContext().then(() => runGoogleContextTest()...) of
\* launchBrowser() settles: "ok", "createFail" or "testFail".
batchGoogleInitDone(s, o) ==
  LET s1 == IF o = "createFail" \/ ~s.browser
              THEN s
              ELSE pushTab([s EXCEPT !.googleContext = TRUE], "google")
  IN [s1 EXCEPT !.batch.googleInit = FALSE,
                !.batch.googleHealthy =
                   batchRunGoogleContextTestOk(s1, o = "ok")]

\* The catch block of processTask for an error thrown by getAvailableTab();
\* google tells whether the message contains "Google context" (no error
\* that gets here mentions a captcha).
processTaskCatch(s, t, google) ==
  LET s1 == [s EXCEPT !.batch.acquiring[t] = "none", !.batch.got[t] = 0]
  IN IF s1.task[t].cancelled THEN s1
     ELSE IF s1.task[t].engine = GOOGLE /\ google
       THEN [s1 EXCEPT !.taskQueue = Append(@, t)]
     ELSE IF s1.task[t].retries < MAX_RETRIES
       THEN [s1 EXCEPT !.task[t].retries = @ + 1, !.taskQueue = Append(@, t)]
     ELSE settle(s1, t, "rej_error")

\* processTask after `await this.getAvailableTab(...)` returned pool entry
\* i: the tab is marked busy and executeSearch(tab, task) starts.
processTaskBind(s, t, i) ==
  LET s1 == [s EXCEPT !.batch.acquiring[t] = "none", !.batch.got[t] = 0]
  IN IF s1.task[t].cancelled
       THEN settle(s1, t, "rej_cancelled")
       ELSE [s1 EXCEPT !.tabPool[i].busy = TRUE,
                       !.tabPool[i].users = @ \cup {t},
                       !.batch.concurrentSearches = @ + 1,
                       !.executing = @ \cup {t}]

\* getAvailableTab() up to its first await or to its return; the result is
\* noted in acquiring[t]: an error ("throwGoogle" when its message contains
\* "Google context", "throw" otherwise), a free tab ("tab"), the wait for
\* one ("wait") or the creation of one ("newPage").
batchGetAvailableTab(s, t) ==
  LET google == s.task[t].engine = GOOGLE
      ct == contextTypeOf(s.task[t].engine)
      mark(x) == [s EXCEPT !.batch.acquiring[t] = x]
  IN IF google /\ ~s.batch.googleHealthy THEN mark("throwGoogle")
     ELSE IF ~s.browserHealthy THEN mark("throw")
     ELSE IF google /\ s.googleContextResetting THEN mark("throwGoogle")
     ELSE IF FreeTabs(s, ct) # {}
       THEN [mark("tab") EXCEPT !.batch.got[t] = FirstFree(s, ct)]
     ELSE IF Len(TabsOfType(s, ct)) >= batchMaxTabsForContext(ct)
       THEN mark("wait")
     ELSE IF google /\ ~s.googleContext THEN mark("throwGoogle")
     ELSE IF ~google /\ ~s.browser THEN mark("throw")
     ELSE mark("newPage")

\* processTask(task) up to its first await.
processTask(s, t) ==
  IF s.task[t].cancelled THEN settle(s, t, "rej_cancelled")
  ELSE IF s.task[t].engine = GOOGLE
            /\ (~s.batch.googleHealthy \/ s.googleContextResetting)
    THEN [s EXCEPT !.taskQueue = Append(@, t)]
  ELSE IF s.batch.concurrentSearches >= maxConcurrentSearches
    THEN [s EXCEPT !.taskQueue = Append(@, t)]
  ELSE batchGetAvailableTab(s, t)

\* The microtask in which processTask goes on when getAvailableTab() has
\* settled at once.
processTaskContinue(s, t) ==
  CASE s.batch.acquiring[t] = "tab" -> processTaskBind(s, t, s.batch.got[t])
    [] s.batch.acquiring[t] = "throwGoogle" -> processTaskCatch(s, t, TRUE)
    [] s.batch.acquiring[t] = "throw" -> processTaskCatch(s, t, FALSE)
    [] OTHER -> s

RECURSIVE processTasks(_, _)
processTasks(s, q) ==
  IF q = <<>> THEN s ELSE processTasks(processTask(s, Head(q)), Tail(q))

RECURSIVE continueTasks(_, _)
continueTasks(s, q) ==
  IF q = <<>> THEN s
  ELSE continueTasks(processTaskContinue(s, Head(q)), Tail(q))

\* processQueue(): the synchronous pass (tasksToProcess.map(processTask) and
\* the finally block), then the microtasks of the batch.
batchProcessQueue(s) ==
  IF s.processingQueue \/ s.taskQueue = <<>> THEN s
  ELSE
    LET sorted == sortByPriority(s, s.taskQueue)
        validTasks == SelectSeq(sorted, LAMBDA t : ~s.task[t].cancelled)
        cancelledTasks == SelectSeq(sorted, LAMBDA t : s.task[t].cancelled)
        availableSlots == maxConcurrentSearches - s.batch.concurrentSearches
        n == Min(Max(0, availableSlots), Len(validTasks))
        tasksToProcess == SubSeq(validTasks, 1, n)
        s1 == [settleAll(s, cancelledTasks, "rej_cancelled") EXCEPT
                 !.taskQueue = SubSeq(validTasks, n + 1, Len(validTasks))]
        s2 == processTasks(s1, tasksToProcess)
        s3 == IF Len(s2.taskQueue) > 0
                THEN [s2 EXCEPT !.timers.processQueue = TRUE]
                ELSE s2
    IN continueTasks(s3, tasksToProcess)

\* One poll of the wait loop of getAvailableTab() for task t that ends the
\* wait; timeout: it is the poll that gives up.
acquireWaitPoll(s, t, timeout) ==
  LET google == s.task[t].engine = GOOGLE
      ct == contextTypeOf(s.task[t].engine)
  IN IF google /\ (~s.batch.googleHealthy \/ s.googleContextResetting)
       THEN processTaskCatch(s, t, TRUE)
     ELSE IF ~s.browserHealthy THEN processTaskCatch(s, t, FALSE)
     ELSE IF FreeTabs(s, ct) # {} THEN processTaskBind(s, t, FirstFree(s, ct))
     ELSE IF timeout THEN processTaskCatch(s, t, FALSE)
     ELSE s

\* getAvailableTab() resumed in "Create a new tab" once newPage() settled.
acquireNewPage(s, t, ok) ==
  LET ct == contextTypeOf(s.task[t].engine)
      can == /\ ok
             /\ s.browser
             /\ ct = "google" => s.googleContext
      s1 == pushTab(s, ct)
  IN IF can THEN processTaskBind(s1, t, Len(s1.tabPool))
            ELSE processTaskCatch(s, t, FALSE)

\* executeSearch(tab, task) from the navigation to its end, and the finally
\* callback of processTask.  Whatever executeSearch throws is caught by
\* nobody: the handle of the task stays as it is.
batchExecuteSearch(s, t, o) ==
  LET body ==
        CASE o = "ok" /\ ~s.task[t].cancelled -> settle(s, t, "resolved")
          [] o = "captcha" /\ ~s.task[t].cancelled
                           /\ ~s.googleContextResetting ->
               [s EXCEPT !.timers.reset = TRUE]
          [] OTHER -> s
  IN [releaseTab(body, t) EXCEPT !.batch.concurrentSearches = @ - 1,
                                 !.timers.processQueue = TRUE]

\* resetGoogleContext() up to the cooldown await.
batchResetGoogleContext(s) ==
  IF s.googleContextResetting THEN s
  ELSE
    LET moved(t) == s.task[t].engine = GOOGLE /\ ~s.task[t].cancelled
        googleTasksInQueue == SelectSeq(s.taskQueue, moved)
    IN [s EXCEPT
          !.googleContextResetting = TRUE,
          !.batch.googleHealthy = FALSE,
          !.taskQueue = SelectSeq(@, LAMBDA t : ~moved(t)),
          !.pendingGoogleTasks = @ \o googleTasksInQueue,
          !.task = [t \in DOMAIN s.task |->
                      IF t \in Range(googleTasksInQueue)
                        THEN [s.task[t] EXCEPT !.priority = GOOGLE_TASK,
                                               !.retries = 0]
                        ELSE s.task[t]],
          !.tabPool = SelectSeq(@, LAMBDA tb : tb.contextType # "google"),
          !.googleContext = FALSE,
          !.batch.cycles = @ + 1]

\* A resetGoogleContext() call after its cooldown: the new context, the
\* test and the requeue, or the catch block with its retry timer; then the
\* finally block.
batchResumeReset(s, o) ==
  LET s1 == batchCreateGoogleContext(s, o # "createFail")
      done == /\ batchCreateGoogleContextOk(s, o # "createFail")
              /\ batchRunGoogleContextTestOk(s1, o = "ok")
      tasksToRequeue == s1.pendingGoogleTasks
      queue == SelectSeq(tasksToRequeue, LAMBDA t : ~s1.task[t].cancelled)
                 \o s1.taskQueue
      requeued == [s1 EXCEPT !.batch.googleHealthy = TRUE,
                             !.pendingGoogleTasks = <<>>,
                             !.taskQueue = queue,
                             !.timers.processQueue = @ \/ Len(queue) > 0]
      failed == [s1 EXCEPT !.batch.googleHealthy = FALSE,
                           !.batch.retryTimers = @ + 1]
  IN [(IF done THEN requeued ELSE failed) EXCEPT
        !.googleContextResetting = FALSE,
        !.batch.cycles = @ - 1]

\* The callback of the retry timer of a failed reset.
resetRetry(s) ==
  batchResetGoogleContext([s EXCEPT !.googleContextResetting = FALSE,
                                    !.batch.retryTimers = @ - 1])

\* search() from the queue-size check on.
batchAdmit(s, e) ==
  IF Len(s.taskQueue) >= BatchMaxQueueSize
    THEN [s EXCEPT !.searchWait = NoSearch]
    ELSE LET id == s.nextId + 1 IN
         batchProcessQueue(
           [s EXCEPT !.nextId = id,
                     !.task[id] = [NewTaskRec EXCEPT !.engine = e,
                                                     !.handle = "pending"],
                     !.taskQueue = Append(@, id),
                     !.searchWait = NoSearch])

\* search(query, e) up to the await of a launch or to its return.  For a
\* Google search with Google unhealthy, no reset running and no context, the
\* context is created and tested first (o: "ok", "createFail", "testFail").
batchSearch(s, e, o) ==
  LET init == e = GOOGLE /\ ~s.batch.googleHealthy
                /\ ~s.googleContextResetting /\ ~s.googleContext
      c == batchCreateGoogleContext(s, o # "createFail")
      s1 == IF ~init THEN s
            ELSE IF batchRunGoogleContextTestOk(c, o = "ok")
              THEN [c EXCEPT !.batch.googleHealthy = TRUE]
              ELSE c
      wait(x) == [x EXCEPT !.searchWait =
                    [waiting |-> TRUE,
                     full |-> Len(s.taskQueue) >= BatchMaxQueueSize,
                     turn |-> 0]]
  IN IF ~s1.browser \/ ~s1.browserHealthy
       THEN IF s1.initializing = "pending" THEN wait(s1)
            ELSE IF s1.browserInitializing THEN batchAdmit(s1, e)
            ELSE wait(batchLaunchBrowser(s1))
       ELSE batchAdmit(s1, e)

\* What runs when launchBrowser() returns: the search() call awaiting it.
batchAfterLaunch(s, e) ==
  IF s.searchWait.waiting THEN batchAdmit(s, e) ELSE s

InitOutcomes == {"ok", "createFail", "testFail"}

InitBatch ==
  /\ browser = FALSE
  /\ browserHealthy = FALSE
  /\ browserInitializing = TRUE
  /\ initializing = "pending"
  /\ ready = FALSE
  /\ googleContext = FALSE
  /\ googleContextResetting = FALSE
  /\ cleanUpIntervalId = FALSE
  /\ tabPool = <<>>
  /\ taskQueue = <<>>
  /\ pendingGoogleTasks = <<>>
  /\ task = [t \in BatchTaskIds |-> NewTaskRec]
  /\ nextId = 0
  /\ processingQueue = FALSE
  /\ disp = IdleDisp
  /\ executing = {}
  /\ launchPc = "connecting"
  /\ resetPc = "idle"
  /\ timers = NoTimers
  /\ searchWait = NoSearch
  /\ batch = [NoBatch EXCEPT !.acquiring = [t \in BatchTaskIds |-> "none"],
                             !.got = [t \in BatchTaskIds |-> 0]]
  /\ testTask = NoTask
  /\ extraction = NoExtraction
  /\ status = NoStatus
  /\ facade = NoFacade
  /\ hist = [t \in BatchTaskIds |-> NewHist]
  /\ track = "batch"

\* connect() settles and launchBrowser() runs to its end.
BatchLaunch ==
  /\ launchPc = "connecting"
  /\ \E s \in { batchAfterLaunch(batchLaunchBrowserResume(S, o), e) :
                   o \in {"ok", "initFail", "connectFail"},
                   e \in Engines } : Commit(s)

BatchGoogleInit ==
  /\ batch.googleInit
  /\ \E o \in InitOutcomes : Commit(batchGoogleInitDone(S, o))

BatchSearch ==
  /\ ~searchWait.waiting
  /\ nextId < BatchMaxTasks
  /\ \E s \in { batchSearch(S, e, o) : e \in Engines, o \in InitOutcomes } :
       Commit(s)

\* A timer callback of the wait loop of getAvailableTab() ends the wait.
BatchAcquireWait ==
  \E t \in BatchTaskIds, timeout \in BOOLEAN :
    /\ batch.acquiring[t] = "wait"
    /\ acquireWaitPoll(S, t, timeout) # S
    /\ Commit(acquireWaitPoll(S, t, timeout))

BatchAcquireNewPage ==
  \E t \in BatchTaskIds, ok \in BOOLEAN :
    /\ batch.acquiring[t] = "newPage"
    /\ Commit(acquireNewPage(S, t, ok))

BatchExecuteSearch ==
  \E t \in executing, o \in {"ok", "captcha", "error"} :
    /\ o \in {"ok", "captcha"} => TabOpen(S, t)
    /\ o = "captcha" => task[t].engine = GOOGLE
    /\ Commit(batchExecuteSearch(S, t, o))

\* setImmediate / setTimeout(() => this.processQueue())
BatchTimerProcessQueue ==
  /\ timers.processQueue
  /\ Commit(batchProcessQueue([S EXCEPT !.timers.processQueue = FALSE]))

\* setImmediate(() => this.resetGoogleContext())
BatchTimerReset ==
  /\ timers.reset
  /\ googleContextResetting \/ batch.cycles + batch.retryTimers < MaxCycles
  /\ Commit(batchResetGoogleContext([S EXCEPT !.timers.reset = FALSE]))

\* The cooldown of one resetGoogleContext() call elapses.
BatchResetCooldown ==
  /\ batch.cycles > 0
  /\ \E o \in InitOutcomes : Commit(batchResumeReset(S, o))

\* setTimeout(() => { this.googleContextResetting = false;
\*                    this.resetGoogleContext(); }, 10000)
BatchTimerRetry ==
  /\ batch.retryTimers > 0
  /\ Commit(resetRetry(S))

NextBatch ==
  \/ BatchLaunch
  \/ BatchGoogleInit
  \/ BatchSearch
  \/ Cancel
  \/ BatchAcquireWait
  \/ BatchAcquireNewPage
  \/ BatchExecuteSearch
  \/ BatchTimerProcessQueue
  \/ BatchTimerReset
  \/ BatchResetCooldown
  \/ BatchTimerRetry
  \/ IdleCleanup

SpecBatch == InitBatch /\ [][NextBatch]_vars

\* ------------------------------------------------------- FIFO variant
\* SERPScraper of src/unnamed/part_002: no priorities, no health flags; the
\* launch tests the browser with a search of its own, whose promise it
\* awaits.  The clients of this model call search() once the scraper says
\* it is ready (its public field), as the controller does, or when there is
\* no browser object and no launch in progress.
FifoMaxTabs == 3        \* constructor argument maxTabs of the FIFO variant
FifoMaxQueueSize == 2   \* constructor argument maxQueueSize of the FIFO variant
FifoMaxTasks == 4       \* tasks created, the test searches of the launches included

FifoTaskIds == 1..FifoMaxTasks

fifoMaxTabsForContext(ct) ==
  IF ct = "google"
    THEN Max(1, FifoMaxTabs \div 2)
    ELSE Max(1, FifoMaxTabs - (FifoMaxTabs \div 2))

\* cancelAllRequests() looks at the queue only.
fifoCancelAllRequests(s) ==
  LET s1 == [s EXCEPT !.task = [t \in DOMAIN @ |->
                IF t \in Range(s.taskQueue)
                  THEN [@[t] EXCEPT !.cancelled = TRUE]
                  ELSE @[t]]]
  IN [settleAll(s1, s.taskQueue, "rej_all_cancelled") EXCEPT !.taskQueue = <<>>]

fifoCloseBrowser(s) ==
  [fifoCancelAllRequests(s) EXCEPT
     !.cleanUpIntervalId = FALSE, !.tabPool = <<>>, !.googleContext = FALSE,
     !.browser = FALSE]

RECURSIVE fifoDispatchLoop(_)

\* processQueue() after `await this.getAvailableTab(...)` returned pool entry
\* i: the tab is marked busy and executeSearch(tab, task) starts.
fifoAfterGetAvailableTab(s, t, i) ==
  IF s.task[t].cancelled
    THEN fifoDispatchLoop(settle(s, t, "rej_cancelled"))
    ELSE fifoDispatchLoop([s EXCEPT !.tabPool[i].busy = TRUE,
                                    !.tabPool[i].users = @ \cup {t},
                                    !.executing = @ \cup {t}])

\* The catch block of the loop body of processQueue().
fifoDispatchCatch(s, t) ==
  fifoDispatchLoop(IF s.task[t].cancelled THEN s ELSE settle(s, t, "rej_error"))

\* getAvailableTab() from `currentTabsOfType` on.
fifoFindOrCreateTab(s, t) ==
  LET ct == contextTypeOf(s.task[t].engine) IN
  IF FreeTabs(s, ct) # {}
    THEN fifoAfterGetAvailableTab(s, t, FirstFree(s, ct))
  ELSE IF Len(TabsOfType(s, ct)) >= fifoMaxTabsForContext(ct)
    THEN [s EXCEPT !.disp = [pc |-> "waitTab", t |-> t]]
    ELSE [s EXCEPT !.disp = [pc |-> "newPage", t |-> t]]

\* One iteration of the while loop of processQueue() and the ones after it,
\* until the pass suspends in an await or ends.
fifoDispatchLoop(s) ==
  LET validTasks == SelectSeq(s.taskQueue, LAMBDA t : ~s.task[t].cancelled)
      cancelledTasks == SelectSeq(s.taskQueue, LAMBDA t : s.task[t].cancelled)
      s1 == [settleAll(s, cancelledTasks, "rej_cancelled")
               EXCEPT !.taskQueue = validTasks]
      t == Head(validTasks)
      s2 == [s1 EXCEPT !.taskQueue = Tail(validTasks)]
  IN IF validTasks = <<>>
       THEN [s1 EXCEPT !.processingQueue = FALSE, !.disp = IdleDisp]
     ELSE IF s.task[t].engine = GOOGLE
       THEN [s2 EXCEPT !.disp = [pc |-> "ensure", t |-> t]]
       ELSE fifoFindOrCreateTab(s2, t)

fifoProcessQueue(s) ==
  IF s.processingQueue \/ s.taskQueue = <<>>
    THEN s
    ELSE fifoDispatchLoop([s EXCEPT !.processingQueue = TRUE])

\* getAvailableTab() resumed after `await this.ensureGoogleContext()`:
\* "valid" (pages() answers), "recreated" or "failed".
fifoResumeEnsure(s, o) ==
  LET t == s.disp.t
      got == (s.googleContext /\ o = "valid") \/ (s.browser /\ o = "recreated")
  IN IF got THEN fifoFindOrCreateTab([s EXCEPT !.googleContext = TRUE], t)
            ELSE fifoDispatchCatch([s EXCEPT !.googleContext = FALSE], t)

\* getAvailableTab() resumed in its creation of a tab, once newPage() has
\* settled (for a Google task after the second ensureGoogleContext()).
fifoResumeNewPage(s, ok) ==
  LET t == s.disp.t
      ct == contextTypeOf(s.task[t].engine)
      s1 == IF ct = "google" /\ s.browser /\ ok
              THEN [s EXCEPT !.googleContext = TRUE] ELSE s
      s2 == pushTab(s1, ct)
  IN IF ok /\ s.browser
       THEN fifoAfterGetAvailableTab(s2, t, Len(s2.tabPool))
       ELSE fifoDispatchCatch(s, t)

\* executeSearch(tab, task) from the navigation to its return, and the
\* finally callback that frees the tab: "ok", "captcha" or "error".
fifoExecuteSearch(s, t, o) ==
  LET c == s.task[t].cancelled
      body ==
        CASE c -> s
          [] o = "ok" -> settle(s, t, "resolved")
          [] o = "captcha" ->
               [s EXCEPT !.pendingGoogleTasks = Append(@, t),
                         !.timers.reset = TRUE]
          [] s.task[t].retries < MAX_RETRIES ->
               [s EXCEPT !.task[t].retries = @ + 1,
                         !.taskQueue = <<t>> \o @,
                         !.timers.processQueue = TRUE]
          [] OTHER -> settle(s, t, "rej_max_retries")
  IN releaseTab(body, t)

\* resetGoogleContext() / _performGoogleContextReset() up to the first await
\* on a closing page.
fifoResetGoogleContext(s) ==
  IF s.resetPc # "idle" THEN s
  ELSE
    LET moved(t) == s.task[t].engine = GOOGLE /\ ~s.task[t].cancelled
    IN [s EXCEPT
          !.taskQueue = SelectSeq(@, LAMBDA t : ~moved(t)),
          !.pendingGoogleTasks = @ \o SelectSeq(s.taskQueue, moved),
          !.resetPc = "closing"]

\* The Google tabs and the context are closed; ensureGoogleContext() starts.
fifoResetClosed(s) ==
  [s EXCEPT !.tabPool = SelectSeq(@, LAMBDA tb : tb.contextType # "google"),
            !.googleContext = FALSE,
            !.resetPc = IF s.browser THEN "ensure" ELSE "idle"]

\* for (const task of tasksToRequeue) { ...; this.taskQueue.unshift(task); }
RECURSIVE fifoRequeue(_, _)
fifoRequeue(s, q) ==
  IF q = <<>> THEN s
  ELSE fifoRequeue(
         IF s.task[Head(q)].cancelled THEN s
         ELSE [s EXCEPT !.task[Head(q)].retries = 0,
                        !.taskQueue = <<Head(q)>> \o @],
         Tail(q))

\* _performGoogleContextReset() after `await this.ensureGoogleContext()`.
fifoResumeReset(s, ok) ==
  IF ok /\ s.browser
    THEN LET tasksToRequeue == s.pendingGoogleTasks
         IN [fifoRequeue([s EXCEPT !.pendingGoogleTasks = <<>>], tasksToRequeue)
             EXCEPT !.googleContext = TRUE,
                    !.timers.processQueue = @ \/ Len(tasksToRequeue) > 0,
                    !.resetPc = "idle"]
    ELSE [s EXCEPT !.resetPc = "idle"]

\* search() from the queue-size check on: the throw of "Queue is full", or
\* the new task, its push and the call of processQueue().
fifoSearch(s, e) ==
  IF Len(s.taskQueue) >= FifoMaxQueueSize THEN s
  ELSE LET id == s.nextId + 1 IN
       fifoProcessQueue(
         [s EXCEPT !.nextId = id,
                   !.task[id] = [NewTaskRec EXCEPT !.engine = e,
                                                   !.handle = "pending"],
                   !.taskQueue = Append(@, id)])

\* search(query, e): without a browser object the call awaits
\* launchBrowser() before it calls itself again.
fifoSearchCall(s, e) ==
  IF s.browser
    THEN fifoSearch(s, e)
    ELSE [s EXCEPT !.launchPc = "connecting",
                   !.searchWait = [NoSearch EXCEPT !.waiting = TRUE]]

\* launchBrowser() once connect() has settled: "ok", "contextFail" (the
\* context or the first navigation fails) or "connectFail".  On "ok" the
\* test search is submitted; when search() throws, the browser is closed and
\* launched again.
fifoLaunchResume(s, o) ==
  CASE o = "connectFail" -> [s EXCEPT !.launchPc = "idle"]
    [] o = "contextFail" -> [s EXCEPT !.browser = TRUE, !.launchPc = "idle"]
    [] OTHER ->
         LET s1 == [s EXCEPT !.browser = TRUE, !.googleContext = TRUE]
             s2 == fifoSearch(s1, GOOGLE)
         IN IF s2.nextId = s1.nextId
              THEN [fifoCloseBrowser([s1 EXCEPT !.ready = FALSE])
                    EXCEPT !.launchPc = "connecting"]
              ELSE [s2 EXCEPT !.testTask = s2.nextId, !.launchPc = "testing"]

\* chromeContextSearchTest() and launchBrowser() go on once the promise of
\* the test search has settled.
fifoTestSettled(s) ==
  IF s.testTask = NoTask \/ s.task[s.testTask].handle = "pending" THEN s
  ELSE IF s.task[s.testTask].handle = "resolved"
    THEN [s EXCEPT !.ready = TRUE, !.cleanUpIntervalId = TRUE,
                   !.testTask = NoTask, !.launchPc = "idle"]
    ELSE [fifoCloseBrowser([s EXCEPT !.ready = FALSE, !.testTask = NoTask])
          EXCEPT !.launchPc = "connecting"]

\* The search() call that awaits launchBrowser() goes on when the launch
\* has returned: `return this.search(query, searchEngine)` launches again
\* when there is still no browser object (e is the engine argument, which
\* the call has not looked at yet).
fifoLaunchReturned(s, e) ==
  IF ~s.searchWait.waiting \/ s.launchPc # "idle" THEN s
  ELSE IF s.browser THEN fifoSearch([s EXCEPT !.searchWait = NoSearch], e)
  ELSE [s EXCEPT !.launchPc = "connecting",
                 !.searchWait.turn = 1 - @]

\* What runs once a handler has settled promises: the launch awaiting its
\* test search, then the search() call awaiting the launch.
fifoSettled(s, e) == fifoLaunchReturned(fifoTestSettled(s), e)

\* The callback of the interval of startIdleTabCleanup().
fifoCleanupIdleTabs(s, idle) ==
  [s EXCEPT !.tabPool =
     removeAt(@, tabsToClose(s, idle, "default")
                   \cup tabsToClose(s, idle, "google"), 1)]

InitFifo ==
  /\ browser = FALSE
  /\ browserHealthy = FALSE
  /\ browserInitializing = FALSE
  /\ initializing = "null"
  /\ ready = FALSE
  /\ googleContext = FALSE
  /\ googleContextResetting = FALSE
  /\ cleanUpIntervalId = FALSE
  /\ tabPool = <<>>
  /\ taskQueue = <<>>
  /\ pendingGoogleTasks = <<>>
  /\ task = [t \in FifoTaskIds |-> NewTaskRec]
  /\ nextId = 0
  /\ processingQueue = FALSE
  /\ disp = IdleDisp
  /\ executing = {}
  /\ launchPc = "connecting"
  /\ resetPc = "idle"
  /\ timers = NoTimers
  /\ searchWait = NoSearch
  /\ batch = [NoBatch EXCEPT !.acquiring = [t \in FifoTaskIds |-> "none"],
                             !.got = [t \in FifoTaskIds |-> 0]]
  /\ testTask = NoTask
  /\ extraction = NoExtraction
  /\ status = NoStatus
  /\ facade = NoFacade
  /\ hist = [t \in FifoTaskIds |-> NewHist]
  /\ track = "fifo"

\* connect() settles; a launch submits its test search as long as task
\* identifiers are left (one is kept for a suspended search() call).
FifoLaunch ==
  /\ launchPc = "connecting"
  /\ \E o \in {"ok", "contextFail", "connectFail"} :
       /\ o = "ok" =>
            nextId + (IF searchWait.waiting THEN 1 ELSE 0) < FifoMaxTasks
       /\ \E s \in { fifoSettled(fifoLaunchResume(S, o), e) : e \in Engines } :
            Commit(s)

FifoSearch ==
  /\ (ready /\ browser) \/ (~browser /\ launchPc = "idle")
  /\ ~searchWait.waiting
  /\ nextId < FifoMaxTasks
  /\ \E s \in { fifoSettled(fifoSearchCall(S, e), e) : e \in Engines } :
       Commit(s)

FifoCancel ==
  \E t \in FifoTaskIds :
    /\ task[t].handle # "new"
    /\ Commit(cancel(S, t))

FifoDispatchEnsure ==
  /\ disp.pc = "ensure"
  /\ \E s \in { fifoSettled(fifoResumeEnsure(S, o), e) :
                   o \in {"valid", "recreated", "failed"}, e \in Engines } :
       Commit(s)

FifoDispatchWaitTab ==
  /\ disp.pc = "waitTab"
  /\ FreeTabs(S, contextTypeOf(task[disp.t].engine)) # {}
  /\ \E s \in { fifoSettled(fifoAfterGetAvailableTab(
                     S, disp.t,
                     FirstFree(S, contextTypeOf(task[disp.t].engine))), e) :
                   e \in Engines } : Commit(s)

FifoDispatchNewPage ==
  /\ disp.pc = "newPage"
  /\ \E s \in { fifoSettled(fifoResumeNewPage(S, ok), e) :
                   ok \in BOOLEAN, e \in Engines } : Commit(s)

\* o: results extracted, a captcha page, an error of the extraction ("No
\* results found ...", "Unsupported search engine") or another error.
FifoExecuteSearch ==
  \E t \in executing, o \in {"ok", "captcha", "noResults", "error"} :
    /\ o \in {"ok", "captcha", "noResults"} => TabOpen(S, t)
    /\ o = "captcha" => task[t].engine = GOOGLE
    /\ \E s \in { fifoSettled(fifoExecuteSearch(S, t, o), e) :
                     e \in Engines } : Commit(s)

\* setImmediate(() => this.processQueue())
FifoTimerProcessQueue ==
  /\ timers.processQueue
  /\ \E s \in { fifoSettled(
                     fifoProcessQueue([S EXCEPT !.timers.processQueue = FALSE]),
                     e) : e \in Engines } : Commit(s)

\* setImmediate(() => this.resetGoogleContext())
FifoTimerReset ==
  /\ timers.reset
  /\ Commit(fifoResetGoogleContext([S EXCEPT !.timers.reset = FALSE]))

FifoResetClosed ==
  /\ resetPc = "closing"
  /\ Commit(fifoResetClosed(S))

FifoResetEnsure ==
  /\ resetPc = "ensure"
  /\ \E ok \in BOOLEAN : Commit(fifoResumeReset(S, ok))

FifoIdleCleanup ==
  /\ cleanUpIntervalId
  /\ \E s \in { fifoCleanupIdleTabs(S, idle) :
                   idle \in SUBSET (FreeTabs(S, "default")
                                      \cup FreeTabs(S, "google")) } : Commit(s)

NextFifo ==
  \/ FifoLaunch
  \/ FifoSearch
  \/ FifoCancel
  \/ FifoDispatchEnsure
  \/ FifoDispatchWaitTab
  \/ FifoDispatchNewPage
  \/ FifoExecuteSearch
  \/ FifoTimerProcessQueue
  \/ FifoTimerReset
  \/ FifoResetClosed
  \/ FifoResetEnsure
  \/ FifoIdleCleanup

\* Every promise the scraper awaits settles, one way or the other, and the
\* event loop runs every callback that is due.
FairFifo ==
  /\ WF_vars(FifoLaunch)
  /\ WF_vars(FifoDispatchEnsure)
  /\ WF_vars(FifoDispatchWaitTab)
  /\ WF_vars(FifoDispatchNewPage)
  /\ WF_vars(FifoExecuteSearch)
  /\ WF_vars(FifoTimerProcessQueue)
  /\ WF_vars(FifoTimerReset)
  /\ WF_vars(FifoResetClosed)
  /\ WF_vars(FifoResetEnsure)

SpecFifo == InitFifo /\ [][NextFifo]_vars /\ FairFifo

\* --------------------------------------------------- result extraction
\* PreprocessService.process<Engine>Results of src/unnamed/part_001: the
\* callback of resultElements.forEach is the same for the four engines.  An
\* element of the page is described by what the three selectors give:
\*   title, description  "none" (no such node) or the text of the node
\*   link                "none" (no such node), "null" (no href attribute)
\*                       or the value of the attribute
MaxElems == 3           \* result elements of a page

Texts == {"none", " ", "T"}
Links == {"none", "null", "/url?q=x", "https://a.com/x", "https://b.org/"}
Elements == [title : Texts, link : Links, description : {"none", "D"}]
Pages == UNION { [1..n -> Elements] : n \in 0..MaxElems }

\* textContent?.trim() || ""
trim(text) == IF text = " " THEN "" ELSE text

\* getAttribute("href") || ""
href(link) == IF link = "null" THEN "" ELSE link

\* new URL(link).hostname; "throws" when the link is not an absolute URL.
hostname(link) ==
  CASE link = "https://a.com/x" -> "a.com"
    [] link = "https://b.org/" -> "b.org"
    [] OTHER -> "throws"

\* The element passes both if statements and new URL(link) does not throw.
pushed(el) ==
  /\ el.title # "none" /\ el.link # "none" /\ el.description # "none"
  /\ trim(el.title) # "" /\ href(el.link) # "" /\ trim(el.description) # ""
  /\ hostname(href(el.link)) # "throws"

\* A counter that every element that passes the if statements consumes.
rankAfterEvery(rank, el) ==
  IF el.title # "none" /\ el.link # "none" /\ el.description # "none"
       /\ trim(el.title) # "" /\ href(el.link) # "" /\ trim(el.description) # ""
    THEN rank + 1 ELSE rank

\* rank++ is evaluated in the argument of results.push(...), after
\* new URL(link) has returned.
rankAfter(rank, el) == IF pushed(el) THEN rank + 1 ELSE rank

\* The forEach callback on element el.
processElement(x, el) ==
  [x EXCEPT
     !.pos = @ + 1,
     !.rank = rankAfter(@, el),
     !.results =
       IF pushed(el)
         THEN Append(@, [title |-> trim(el.title), link |-> href(el.link),
                         description |-> trim(el.description),
                         rank |-> x.rank, domain |-> hostname(href(el.link))])
         ELSE @]

frameVars ==
  << browser, browserHealthy, browserInitializing, initializing, ready,
     googleContext, googleContextResetting, cleanUpIntervalId, tabPool,
     taskQueue, pendingGoogleTasks, task, nextId, processingQueue, disp,
     executing, launchPc, resetPc, timers, searchWait, batch, testTask,
     hist, track >>

schedulerVars == << frameVars, status >>

InitExtract ==
  /\ Constructed
  /\ track = "extract"

\* page.evaluate(...) starts on a loaded page: querySelectorAll gives its
\* result elements.
LoadPage ==
  /\ extraction.page = <<>>
  /\ \E pg \in Pages \ {<<>>} :
       extraction' = [NoExtraction EXCEPT !.page = pg]
  /\ UNCHANGED << schedulerVars, facade >>

ProcessElement ==
  /\ extraction.pos < Len(extraction.page)
  /\ extraction' = processElement(extraction,
                                  extraction.page[extraction.pos + 1])
  /\ UNCHANGED << schedulerVars, facade >>

NextExtract == LoadPage \/ ProcessElement

SpecExtract == InitExtract /\ [][NextExtract]_vars

\* ------------------------------------------------- the facade
\* The scraper of src/unnamed/part_003 owns the browser, a general (base)
\* context and a Chrome context, and routes each search() to one of them.
\* The contexts themselves are the schedulers modelled above; of a context
\* the facade only reads whether it exists.  One search() call and one
\* closeBrowser() call of a client are in progress at a time, a launch
\* starts once the test loops of the launch before have ended, and a client
\* closes the browser while no launch is in progress.

\* Values of the constructor argument maxTabs.
FacadeMaxTabsArg == 3

FacadeMaxTabsArgs == 0..FacadeMaxTabsArg

\* new BaseSERPContext(browser, <this>, maxQueueSize) of initializeContexts()
\* and of the catch block of runBaseTestLoop().
baseCapacity(f) ==
  IF f.enableChromeContext THEN Max(1, f.maxTabs \div 2) ELSE f.maxTabs

\* new ChromeSERPContext(browser, <this>, maxQueueSize)
chromeCapacity(f) ==
  IF f.baseContext THEN Max(1, f.maxTabs \div 2) ELSE f.maxTabs

\* The maxTabs argument of the context a test loop creates: in its catch
\* block (missing = FALSE) or at the top of a turn that finds no context.
loopCapacity(f, kind, missing) ==
  IF kind = "chrome" THEN chromeCapacity(f)
  ELSE IF missing THEN f.maxTabs
  ELSE baseCapacity(f)

capOf(kind) == IF kind = "base" THEN "baseMaxTabs" ELSE "chromeMaxTabs"

Envs == [enableChromeContext : BOOLEAN, onlyGoogle : BOOLEAN,
         onlyBase : BOOLEAN]

\* validateEnv(): pc "failed" stands for the throw.
validateEnv(f) ==
  IF f.onlyGoogle /\ f.onlyBase THEN [f EXCEPT !.pc = "failed"]
  ELSE IF f.onlyGoogle /\ ~f.enableChromeContext
    THEN [f EXCEPT !.enableChromeContext = TRUE]
  ELSE f

\* The field initialisers and the constructor, up to the await of connect().
facadeConstructor(f, env, maxTabs) ==
  LET g == validateEnv([f EXCEPT
                          !.maxTabs = Max(1, maxTabs),
                          !.enableChromeContext = env.enableChromeContext,
                          !.onlyGoogle = env.onlyGoogle,
                          !.onlyBase = env.onlyBase])
  IN IF g.pc = "failed" THEN g
     ELSE [g EXCEPT !.pc = "ok", !.launchPc = "connecting"]

\* A mutant of facadeRoute: the Chrome context takes every engine.
facadeRouteChromeFirst(f, e) ==
  IF f.onlyGoogle /\ e # GOOGLE THEN "rejOnlyGoogle"
  ELSE IF f.onlyBase /\ e = GOOGLE
    THEN IF ~f.baseContext THEN "rejNoBase" ELSE "base"
  ELSE IF f.chromeContext THEN "chrome"
  ELSE IF f.baseContext THEN "base"
  ELSE "rejNoContext"

\* The branch search() takes once it has a browser object.
facadeRoute(f, e) ==
  IF f.onlyGoogle /\ e # GOOGLE THEN "rejOnlyGoogle"
  ELSE IF f.onlyBase /\ e = GOOGLE
    THEN IF ~f.baseContext THEN "rejNoBase" ELSE "base"
  ELSE IF e = GOOGLE /\ f.chromeContext THEN "chrome"
  ELSE IF f.baseContext THEN "base"
  ELSE "rejNoContext"

\* `return this.<kind>Context.search(query, searchEngine)`: a TypeError when
\* the field is null by now, and the throw of the search() of a context
\* whose initComplete is false; otherwise that search() pushes the task and
\* calls processQueue() of the context.
facadeSend(f) ==
  LET there == IF f.call.to = "chrome" THEN f.chromeContext /\ f.chromeInit
               ELSE f.baseContext /\ f.baseInit
  IN [f EXCEPT !.call.pc = "none",
               !.call.out = IF there THEN "sent" ELSE "thrown"]

\* search(query, e) with a browser object.
facadeSearchRouted(f, e) ==
  LET to == facadeRoute(f, e)
      g == [f EXCEPT !.call = [NoCall EXCEPT !.engine = e, !.to = to,
                                            !.sawBase = f.baseContext,
                                            !.sawChrome = f.chromeContext]]
      isReady == IF to = "chrome" THEN f.chromeReady ELSE f.baseReady
      promise == IF to = "chrome" THEN f.chromeReadyPromise
                 ELSE f.baseReadyPromise
      loop == IF to = "chrome" THEN f.chromeLoop ELSE f.baseLoop
  IN IF to \notin {"chrome", "base"} THEN [g EXCEPT !.call.out = "thrown"]
     ELSE IF isReady \/ ~promise \/ loop = "resolved" THEN facadeSend(g)
     ELSE IF loop = "rejected" THEN [g EXCEPT !.call.out = "thrown"]
     ELSE [g EXCEPT !.call.pc = IF to = "chrome" THEN "chromeReady"
                                ELSE "baseReady"]

\* search(query, e): without a browser object the call awaits
\* launchBrowser() and then calls itself.
facadeSearch(f, e) ==
  IF f.browser THEN facadeSearchRouted(f, e)
  ELSE [f EXCEPT !.call = [NoCall EXCEPT !.engine = e, !.pc = "launch"],
                 !.launchPc = "connecting"]

\* What the end of a launchBrowser() call and the settling of a readiness
\* promise resume: the search() call that awaits it.
facadeSettle(f) ==
  CASE f.call.pc = "launch" /\ f.launchPc = "idle" ->
         facadeSearch(f, f.call.engine)
    [] f.call.pc = "baseReady" /\ f.baseLoop = "resolved" -> facadeSend(f)
    [] f.call.pc = "chromeReady" /\ f.chromeLoop = "resolved" -> facadeSend(f)
    [] f.call.pc = "baseReady" /\ f.baseLoop = "rejected" ->
         [f EXCEPT !.call.pc = "none", !.call.out = "thrown"]
    [] f.call.pc = "chromeReady" /\ f.chromeLoop = "rejected" ->
         [f EXCEPT !.call.pc = "none", !.call.out = "thrown"]
    [] OTHER -> f

\* closeBrowser() returns to its caller: the catch block of launchBrowser()
\* sets the timer of the next launch.
facadeCloseReturn(f) ==
  IF f.closeBy = "launch"
    THEN [f EXCEPT !.closePc = "idle", !.closeBy = "none",
                   !.launchPc = "idle", !.relaunchTimer = TRUE]
    ELSE [f EXCEPT !.closePc = "idle", !.closeBy = "none"]

\* The last statements of the try block of closeBrowser().
facadeCloseEnd(f) ==
  facadeCloseReturn([f EXCEPT !.baseReady = FALSE, !.chromeReady = FALSE,
                              !.baseReadyPromise = FALSE,
                              !.chromeReadyPromise = FALSE])

\* closeBrowser() from one of its three ifs on, up to the next await.
RECURSIVE facadeCloseFrom(_, _)
facadeCloseFrom(f, stage) ==
  CASE stage = "base" ->
         IF f.baseContext THEN [f EXCEPT !.closePc = "base"]
         ELSE facadeCloseFrom(f, "chrome")
    [] stage = "chrome" ->
         IF f.chromeContext THEN [f EXCEPT !.closePc = "chrome"]
         ELSE facadeCloseFrom(f, "browser")
    [] OTHER ->
         IF f.browser THEN [f EXCEPT !.closePc = "browser"]
         ELSE facadeCloseEnd(f)

\* closeBrowser(), called by `by`.
facadeCloseBrowser(f, by) ==
  facadeCloseFrom([f EXCEPT !.cleanUpIntervalId = FALSE, !.closeBy = by],
                  "base")

\* closeBrowser() after the close() it awaits; when that close() throws, the
\* catch block only logs.
facadeCloseResume(f, ok) ==
  IF ~ok THEN facadeCloseReturn(f)
  ELSE CASE f.closePc = "base" ->
              facadeCloseFrom([f EXCEPT !.baseContext = FALSE,
                                        !.baseMaxTabs = 0,
                                        !.baseInit = FALSE], "chrome")
         [] f.closePc = "chrome" ->
              facadeCloseFrom([f EXCEPT !.chromeContext = FALSE,
                                        !.chromeMaxTabs = 0,
                                        !.chromeInit = FALSE], "browser")
         [] OTHER -> facadeCloseEnd([f EXCEPT !.browser = FALSE])

\* The first turn of a test loop: the search() of a context whose
\* initComplete is false throws, and the catch block awaits close().
firstTurn(initComplete) == IF initComplete THEN "testing" ELSE "closing"

\* launchBrowser() from the end of initializeContexts() on.
facadeLaunchRest(f) ==
  [f EXCEPT !.baseReadyPromise = IF f.baseContext THEN TRUE ELSE @,
            !.baseLoop = IF f.baseContext THEN firstTurn(f.baseInit) ELSE @,
            !.chromeReadyPromise = IF f.chromeContext THEN TRUE ELSE @,
            !.chromeLoop = IF f.chromeContext THEN firstTurn(f.chromeInit)
                           ELSE @,
            !.cleanUpIntervalId = TRUE,
            !.launchPc = "idle"]

\* initializeContexts(), its second half.
facadeInitChrome(f) ==
  IF f.enableChromeContext /\ ~f.onlyBase
    THEN [f EXCEPT !.chromeContext = TRUE, !.chromeInit = FALSE,
                   !.chromeMaxTabs = chromeCapacity(f),
                   !.launchPc = "initChrome"]
    ELSE facadeLaunchRest([f EXCEPT !.chromeContext = FALSE,
                                    !.chromeMaxTabs = 0,
                                    !.chromeInit = FALSE,
                                    !.chromeReady = FALSE,
                                    !.chromeReadyPromise = FALSE])

\* launchBrowser() once connect() has settled.
facadeLaunchResume(f, ok) ==
  IF ~ok THEN facadeCloseBrowser(f, "launch")
  ELSE IF ~f.onlyGoogle
    THEN [f EXCEPT !.browser = TRUE, !.baseContext = TRUE,
                   !.baseMaxTabs = baseCapacity(f),
                   !.baseInit = FALSE, !.launchPc = "initBase"]
    ELSE facadeInitChrome([f EXCEPT !.browser = TRUE, !.baseContext = FALSE,
                                    !.baseMaxTabs = 0,
                                    !.baseInit = FALSE,
                                    !.baseReady = FALSE,
                                    !.baseReadyPromise = FALSE])

\* initializeContexts() once baseContext.initialize() has returned.
facadeBaseInitialized(f, ok) ==
  IF ok THEN facadeInitChrome([f EXCEPT !.baseInit = TRUE])
  ELSE facadeCloseBrowser(f, "launch")

\* initializeContexts() once chromeContext.initialize() has returned: its
\* result is only logged.
facadeChromeInitialized(f, ok) ==
  facadeLaunchRest([f EXCEPT !.chromeInit = ok /\ f.chromeContext])

\* The fields of one kind of context.
ctxOf(kind) == IF kind = "base" THEN "baseContext" ELSE "chromeContext"

initOf(kind) == IF kind = "base" THEN "baseInit" ELSE "chromeInit"

readyOf(kind) == IF kind = "base" THEN "baseReady" ELSE "chromeReady"

loopOf(kind) == IF kind = "base" THEN "baseLoop" ELSE "chromeLoop"

\* run<Kind>TestLoop(): the test search has settled.
facadeTestSettled(f, kind, ok) ==
  IF ok THEN [f EXCEPT ![readyOf(kind)] = TRUE, ![loopOf(kind)] = "resolved"]
  ELSE [f EXCEPT ![readyOf(kind)] = FALSE, ![loopOf(kind)] = "closing"]

\* run<Kind>TestLoop(): the catch block after `await context?.close()`.
facadeLoopClosed(f, kind) ==
  IF ~f.browser
    THEN [f EXCEPT ![ctxOf(kind)] = FALSE, ![initOf(kind)] = FALSE,
                   ![capOf(kind)] = 0,
                   ![loopOf(kind)] = "rejected"]
    ELSE [f EXCEPT ![ctxOf(kind)] = TRUE, ![initOf(kind)] = FALSE,
                   ![capOf(kind)] = loopCapacity(f, kind, FALSE),
                   ![loopOf(kind)] = "init"]

\* run<Kind>TestLoop(): initialize() has returned and the next turn of the
\* loop begins.
facadeLoopTurn(f, kind, ok) ==
  LET g == [f EXCEPT ![initOf(kind)] = ok /\ f[ctxOf(kind)]]
  IN IF g[ctxOf(kind)]
       THEN [g EXCEPT ![readyOf(kind)] = IF ok THEN @ ELSE FALSE,
                      ![loopOf(kind)] = firstTurn(ok)]
     ELSE IF g.browser
       THEN [g EXCEPT ![ctxOf(kind)] = TRUE,
                      ![capOf(kind)] = loopCapacity(g, kind, TRUE)]
     ELSE [g EXCEPT ![readyOf(kind)] = FALSE, ![loopOf(kind)] = "closing"]

\* getStatus() of the facade: what it reads of the facade itself.
facadeGetStatus(f, st) ==
  [st EXCEPT !.returned = TRUE,
             !.googleContextActive = f.chromeContext,
             !.ready = f.baseReady \/ f.chromeReady]

InitFacade ==
  /\ Constructed
  /\ track = "facade"

FacadeStep(f) ==
  /\ facade' = facadeSettle(f)
  /\ status' = NoStatus
  /\ UNCHANGED << frameVars, extraction >>

\* A client calls getStatus() of the facade, which calls getStatus() of the
\* contexts that exist.
FacadeGetStatus ==
  /\ facade.pc = "ok"
  /\ status' = facadeGetStatus(facade, status)
  /\ UNCHANGED << frameVars, extraction, facade >>

\* new SERPScraper() under one setting of the environment.
FacadeConstruct ==
  /\ facade.pc = "new"
  /\ \E env \in Envs, maxTabs \in FacadeMaxTabsArgs :
       FacadeStep(facadeConstructor(facade, env, maxTabs))

FacadeConnect ==
  /\ facade.launchPc = "connecting"
  /\ facade.baseLoop \in {"none", "resolved", "rejected"}
  /\ facade.chromeLoop \in {"none", "resolved", "rejected"}
  /\ \E ok \in BOOLEAN : FacadeStep(facadeLaunchResume(facade, ok))

FacadeInitBase ==
  /\ facade.launchPc = "initBase"
  /\ \E ok \in BOOLEAN : FacadeStep(facadeBaseInitialized(facade, ok))

FacadeInitChrome ==
  /\ facade.launchPc = "initChrome"
  /\ \E ok \in BOOLEAN : FacadeStep(facadeChromeInitialized(facade, ok))

FacadeTest ==
  \E kind \in {"base", "chrome"}, ok \in BOOLEAN :
    /\ facade[loopOf(kind)] = "testing"
    /\ ok => facade[ctxOf(kind)] /\ facade[initOf(kind)] /\ facade.browser
    /\ FacadeStep(facadeTestSettled(facade, kind, ok))

FacadeLoopClosed ==
  \E kind \in {"base", "chrome"} :
    /\ facade[loopOf(kind)] = "closing"
    /\ FacadeStep(facadeLoopClosed(facade, kind))

FacadeLoopTurn ==
  \E kind \in {"base", "chrome"} :
    /\ facade[loopOf(kind)] = "init"
    /\ \E ok \in BOOLEAN : FacadeStep(facadeLoopTurn(facade, kind, ok))

FacadeSearch ==
  /\ facade.pc = "ok"
  /\ facade.call.pc = "none"
  /\ facade.browser \/ (facade.launchPc = "idle" /\ facade.closePc = "idle")
  /\ \E e \in Engines : FacadeStep(facadeSearch(facade, e))

\* closeBrowser() called by a client.
FacadeClose ==
  /\ facade.pc = "ok"
  /\ facade.launchPc = "idle"
  /\ facade.closePc = "idle"
  /\ FacadeStep(facadeCloseBrowser(facade, "client"))

FacadeCloseResume ==
  /\ facade.closePc # "idle"
  /\ \E ok \in BOOLEAN : FacadeStep(facadeCloseResume(facade, ok))

\* setTimeout(() => this.launchBrowser(), 5000)
FacadeRelaunch ==
  /\ facade.relaunchTimer
  /\ facade.launchPc = "idle"
  /\ facade.closePc = "idle"
  /\ FacadeStep([facade EXCEPT !.relaunchTimer = FALSE,
                               !.launchPc = "connecting"])

NextFacade ==
  \/ FacadeConstruct
  \/ FacadeConnect
  \/ FacadeInitBase
  \/ FacadeInitChrome
  \/ FacadeTest
  \/ FacadeLoopClosed
  \/ FacadeLoopTurn
  \/ FacadeSearch
  \/ FacadeClose
  \/ FacadeCloseResume
  \/ FacadeRelaunch
  \/ FacadeGetStatus

SpecFacade == InitFacade /\ [][NextFacade]_vars

TypeOK ==
  /\ browser \in BOOLEAN
  /\ initializing \in {"null", "pending", "settled"}
  /\ Len(tabPool) <= MaxPool
  /\ nextId \in 0..MaxTasks
  /\ executing \subseteq TaskIds

\* ------------------------------------------------------------- claims
Created == { t \in TaskIds : task[t].handle # "new" }

Rejected(t) == task[t].handle \notin {"new", "pending", "resolved"}

\* Nothing is running, suspended or scheduled: from such a state only a new
\* call by a client (search, cancel) or the idle-cleanup interval can make
\* the scraper move.
Quiescent ==
  /\ launchPc = "idle"
  /\ resetPc = "idle"
  /\ disp.pc = "idle"
  /\ executing = {}
  /\ timers = NoTimers
  /\ ~searchWait.waiting

\* C1 - Backpressure: a search() call made while the queue holds
\* maxQueueSize tasks creates no task and leaves the queue, the holding area
\* and the pool as they are, both in the step of the call and, if the call
\* was suspended, when it resumes.
C1_Backpressure ==
  [][ /\ (Len(taskQueue) >= MaxQueueSize /\ Search) =>
          UNCHANGED << taskQueue, pendingGoogleTasks, tabPool, nextId >>
      /\ (searchWait.waiting /\ searchWait.full) => nextId' = nextId
    ]_vars

\* C2 - At-most-capacity: per context type the pool holds at most the cap of
\* the type (hence at most that many busy tabs), and at most maxTabs tabs in
\* all.
C2_AtMostCapacity ==
  /\ \A ct \in {"default", "google"} :
       Len(TabsOfType(S, ct)) <= maxTabsForContext(ct)
  /\ Len(tabPool) <= MaxTabs

\* C3 - Worker/task exclusivity: every busy tab of the pool runs exactly one
\* executing task, no tab runs two tasks, every executing task runs on
\* exactly one tab, and the number of busy tabs is the number of executing
\* tasks.
C3_WorkerTaskExclusivity ==
  /\ \A i \in 1..Len(tabPool) :
       /\ tabPool[i].busy <=> tabPool[i].users # {}
       /\ Cardinality(tabPool[i].users) <= 1
  /\ \A t \in executing :
       Cardinality({ i \in 1..Len(tabPool) : t \in tabPool[i].users }) = 1
  /\ Cardinality({ i \in 1..Len(tabPool) : tabPool[i].busy })
       = Cardinality(executing)

\* C4 - A task on which cancel() was called while its handle was not settled
\* never resolves with results.
C4_CancelledNeverResolves ==
  \A t \in TaskIds : hist[t].cancelRequested => task[t].handle # "resolved"

\* C5 - A task cancelled while queued is never bound to a worker and its
\* handle ends rejected with a cancellation error: once the scraper has
\* nothing left to do, no cancelled task has an unsettled handle.
C5_QueuedCancelRejected ==
  /\ \A t \in executing : ~task[t].cancelled
  /\ Quiescent =>
       \A t \in TaskIds :
         task[t].cancelled =>
           task[t].handle \in {"rej_cancelled", "rej_all_cancelled"}

\* C6 - Cancellation idempotence: in every reachable state and for every
\* task, a second call of cancel() leaves the state the first call produced
\* (so the handle ends the same way), and a call on a task whose handle is
\* settled changes nothing at all; the same for the closure of the first
\* scraper.
C6_CancelIdempotent ==
  \A t \in Created :
    /\ collect(cancelCall(collect(cancelCall(S, t)), t))
         = collect(cancelCall(S, t))
    /\ task[t].handle # "pending" => collect(cancelCall(S, t)) = S
    /\ cancelFlagOnly(cancelFlagOnly(S, t), t) = cancelFlagOnly(S, t)
    /\ task[t].handle # "pending" => cancelFlagOnly(S, t) = S

\* A task was cancelled in the queue (its handle is still unsettled, a
\* second call can follow) and another task has resolved (a call on it comes
\* after completion).
C6_Witness ==
  /\ \E t \in TaskIds :
       /\ task[t].cancelled
       /\ hist[t].cancelRequested
       /\ task[t].handle = "pending"
  /\ \E u \in TaskIds : task[u].handle = "resolved"

\* C7 - No lost wakeups: the scraper never comes to rest with a task in the
\* queue while the browser is usable and a tab of the type of that task is
\* free.
C7_NoLostWakeup ==
  ~ /\ Quiescent
    /\ browser /\ browserHealthy /\ ~browserInitializing
    /\ ~googleContextResetting
    /\ \E i \in 1..Len(taskQueue) :
         FreeTabs(S, contextTypeOf(task[taskQueue[i]].engine)) # {}

\* C8 - Recovery single-flight: at most one resetGoogleContext() cycle is in
\* progress at any time.
C8_RecoverySingleFlight ==
  batch.cycles <= 1

\* C9 - No held task is dropped: the scraper never comes to rest with a task
\* left in the holding area.
C9_NoHeldTaskDropped ==
  Quiescent => pendingGoogleTasks = <<>>

\* C10 - Retry bound: a task whose executions all ended in a connection
\* error is executed at most 1 + MAX_RETRIES times, and when its handle is
\* rejected (other than by cancelAllRequests) it has been executed exactly
\* that often and the error is the max-retries one.
C10_RetryBound ==
  \A t \in TaskIds :
    (hist[t].onlyTransient /\ hist[t].attempts > 0) =>
      /\ hist[t].attempts <= 1 + MAX_RETRIES
      /\ (Rejected(t) /\ task[t].handle # "rej_all_cancelled") =>
           /\ hist[t].attempts = 1 + MAX_RETRIES
           /\ task[t].handle = "rej_max_retries"

\* What holds of a task after a captcha page, in every state.
C11_Held ==
  \A t \in TaskIds :
    /\ hist[t].phase # "early"
    /\ hist[t].phase = "againOk" => task[t].handle = "resolved"
    /\ (hist[t].phase = "poisoned" /\ task[t].handle = "pending")
         => t \in Range(pendingGoogleTasks)
    /\ hist[t].phase = "poisoned" =>
         task[t].handle \in {"pending", "rej_all_cancelled"}

\* The step in which an execution sees the captcha page.
C11_CaptchaStep ==
  \A t \in TaskIds :
    (hist[t].phase # "poisoned" /\ hist'[t].phase = "poisoned") =>
      /\ task'[t].handle = "pending"
      /\ t \in Range(pendingGoogleTasks')
      /\ googleContextResetting' \/ timers'.reset

TabsOfTypeSeq(pool, type) ==
  SelectSeq(pool, LAMBDA tab : tab.contextType = type)

C12_ShutdownComplete ==
  [][ (browser /\ ~browser') =>
        /\ tabPool' = <<>>
        /\ \A t \in Range(taskQueue) \cup Range(pendingGoogleTasks)
                       \cup executing :
             task'[t].handle \notin {"new", "pending", "resolved"}
    ]_vars

\* C13 - Dispatch order: when the dispatcher takes a task from the queue,
\* no task that stays in the queue and has the same context type has a
\* higher priority, or the same priority and an earlier submission (task
\* identifiers are given in the order of the search() calls).  Only tasks
\* that were not retried since they were submitted or put back by a reset
\* are compared.
C13_DispatchOrder ==
  [][ \A t \in Range(taskQueue) \ Range(taskQueue') :
        (task[t].retries = 0 /\ (t \in executing' \/ disp'.t = t)) =>
          \A u \in Range(taskQueue) \cap Range(taskQueue') :
            ( /\ task[u].retries = 0
              /\ contextTypeOf(task[u].engine) = contextTypeOf(task[t].engine) )
            => \/ task[t].priority > task[u].priority
               \/ task[t].priority = task[u].priority /\ t < u
    ]_vars

\* C14 - Rank monotonicity: at every point of the extraction the results are
\* the elements seen so far that have a title, a link and a description and
\* whose link parses as a URL, in page order, and their ranks are 1, 2, ...,
\* N in list order: a skipped element consumes no rank.
C14_RankMonotonic ==
  LET seen == SubSeq(extraction.page, 1, extraction.pos)
      kept == SelectSeq(seen, pushed)
      res == extraction.results
  IN /\ Len(res) = Len(kept)
     /\ \A i \in 1..Len(res) :
          /\ res[i].rank = i
          /\ res[i].link = kept[i].link
     /\ extraction.rank = Len(res) + 1

\* The extraction is over on a page whose second element has a link that
\* does not parse, between two elements that are extracted.
C14_Witness ==
  /\ Len(extraction.page) = 3
  /\ extraction.pos = 3
  /\ Len(extraction.results) = 2
  /\ extraction.page[2].title = "T"
  /\ extraction.page[2].description = "D"
  /\ extraction.page[2].link = "/url?q=x"

\* C15 - Rejected-at-admission: a search() call made while there is no
\* browser is answered: it does not stay suspended for ever, waiting for
\* launches and starting new ones.
C15_RejectedAtAdmission ==
  [](searchWait.waiting => <>(~searchWait.waiting))

\* C16 - Routing: the branch a search() call of the facade takes is the
\* Chrome context for a Google request when that context exists and the
\* general context otherwise (if there is one), the general context for
\* every other engine, and a throw for another engine in only-Google mode;
\* in only-general mode no call takes the Chrome context, a call is sent
\* to one of the two contexts only, and a facade with both only-modes set
\* is not constructed and launches nothing.
C16_Routing ==
  LET c == facade.call
  IN /\ (facade.onlyGoogle /\ facade.onlyBase) =>
          facade.pc = "failed" /\ ~facade.browser /\ facade.launchPc = "idle"
     /\ c.to # "none" =>
          /\ (c.engine = GOOGLE /\ c.sawChrome) => c.to = "chrome"
          /\ (c.engine = GOOGLE /\ ~c.sawChrome /\ c.sawBase) => c.to = "base"
          /\ (c.engine # GOOGLE /\ ~facade.onlyGoogle /\ c.sawBase) =>
               c.to = "base"
          /\ c.engine # GOOGLE => c.to # "chrome"
          /\ (c.engine # GOOGLE /\ facade.onlyGoogle) =>
               c.to = "rejOnlyGoogle" /\ c.out = "thrown"
          /\ facade.onlyBase => c.to # "chrome"
          /\ c.out = "sent" => c.to \in {"chrome", "base"}

C16_Witness ==
  /\ facade.call.out = "sent"
  /\ facade.call.to = "chrome"
  /\ facade.call.engine = GOOGLE
  /\ facade.baseContext
  /\ facade.chromeReady

\* C17 - status() is read-only: a step in which getStatus() returns leaves
\* every queue, the holding area, the pool, the tasks and every flag of the
\* scraper as they were.
C17_StatusReadOnly ==
  [][status'.returned => UNCHANGED << frameVars, extraction, facade >>]_vars

C17_Witness ==
  /\ status.returned
  /\ status.queueLength > 0
  /\ status.pendingGoogleTasks > 0
  /\ status.totalTabs > 0

\* C18 - No dispatch while resetting: in a step that starts and ends with
\* the resetting flag of the Google context set, no Google task is bound to
\* a tab and no Google tab is added to the pool.
C18_NoDispatchWhileResetting ==
  [][ (googleContextResetting /\ googleContextResetting') =>
        /\ \A t \in executing' \ executing : task'[t].engine # GOOGLE
        /\ Len(TabsOfTypeSeq(tabPool', "google"))
             <= Len(TabsOfTypeSeq(tabPool, "google")) ]_vars

\* C19 - No error is swallowed: the step in which the execution of a task
\* ends leaves the task resolved, rejected, back on the queue or in the
\* holding area, never with an unsettled handle and in no queue.
C19_NoErrorSwallowed ==
  [][ \A t \in executing \ executing' :
        task'[t].handle = "pending" =>
          t \in Range(taskQueue') \cup Range(pendingGoogleTasks') ]_vars

\* C20 - Queue bound: the queue never holds more than maxQueueSize tasks,
\* also after a retry has pushed a task back and after a reset has moved
\* the held tasks back.
C20_QueueBound == Len(taskQueue) <= MaxQueueSize

\* C21 - Health gating: the step in which a search() call of the facade
\* hands its task to a context leaves that context ready (its test search
\* has succeeded).
C21_HealthGating ==
  [][ (facade'.call # facade.call /\ facade'.call.out = "sent") =>
        IF facade'.call.to = "chrome" THEN facade'.chromeReady
        ELSE facade'.baseReady ]_vars

\* The execution of t ends with an error of the extraction (FIFO variant).
C22_ExtractionFails(t) ==
  /\ t \in executing
  /\ ~task[t].cancelled
  /\ TabOpen(S, t)
  /\ \E e \in Engines :
       Commit(fifoSettled(fifoExecuteSearch(S, t, "noResults"), e))

\* C22 - Fatal failures are not retried: the step in which the extraction
\* of a task fails with a no-results or unsupported-engine error rejects the
\* handle of the task and does not put the task back on the queue.
C22_FatalNotRetried ==
  [][ \A t \in FifoTaskIds :
        C22_ExtractionFails(t) =>
          /\ task'[t].handle \notin {"pending", "resolved"}
          /\ t \notin Range(taskQueue') ]_vars

\* The execution of t ends with the transient failure o.
C23_TransientFails(t, o) ==
  /\ t \in executing
  /\ ~task[t].cancelled
  /\ Commit(executeSearch(S, t, o))

\* C23 - Transient failures are retried: the step in which the execution of
\* a task fails with a connection error or a navigation timeout puts the
\* task back on the queue with one retry more and its handle unsettled when
\* its retries are below MAX_RETRIES, and rejects its handle otherwise.
C23_TransientRetried ==
  [][ \A t \in TaskIds, o \in {"conn", "timeout"} :
        C23_TransientFails(t, o) =>
          IF task[t].retries < MAX_RETRIES
            THEN /\ task'[t].retries = task[t].retries + 1
                 /\ task'[t].handle = "pending"
                 /\ t \in Range(taskQueue')
            ELSE task'[t].handle \notin {"pending", "resolved"} ]_vars

\* ------------------------------------------------- the Chrome context
\* GoogleSERPContext of the browser facade: one browser context, one pool of
\* tabs, one queue; tasks whose page showed a captcha wait in
\* pendingRetryTasks (here pendingGoogleTasks) for resetContext();
\* contextResetInProgress is googleContextResetting, initComplete is ready,
\* this.context # null is googleContext.  A tab carries the flag closing:
\* cleanupIdleTabs() has called page.close() on it and the callback that
\* takes it out of the pool has not resumed yet.
ChromeMaxTabs == 2

ChromeMaxQueueSize == 2

ChromeMaxTasks == 3

ChromeTaskIds == 1..ChromeMaxTasks

\* this.tabPool.push({page, busy: false, lastUsed, contextType: "google"})
chromePushTab(s) ==
  [s EXCEPT !.tabPool =
     Append(@, [contextType |-> "google", busy |-> FALSE, users |-> {},
                closing |-> FALSE])]

\* initialize() resumed after its awaits: "ok", "noPage" (newPage() or
\* goto() threw) or "noContext" (createBrowserContext() threw).
chromeInitialize(s, o) ==
  CASE o = "ok" ->
         [chromePushTab(s) EXCEPT !.googleContext = TRUE, !.ready = TRUE,
                                  !.launchPc = "idle"]
    [] o = "noPage" -> [s EXCEPT !.googleContext = TRUE, !.launchPc = "idle"]
    [] OTHER -> [s EXCEPT !.launchPc = "idle"]

RECURSIVE chromeDispatchLoop(_)

\* processQueue() after `await this.getAvailableTab()` returned the tab at
\* position i.
chromeAfterGetAvailableTab(s, t, i) ==
  IF s.task[t].cancelled
    THEN chromeDispatchLoop(settle(s, t, "rej_cancelled"))
    ELSE chromeDispatchLoop([s EXCEPT !.tabPool[i].busy = TRUE,
                                      !.tabPool[i].users = @ \cup {t},
                                      !.executing = @ \cup {t}])

\* The catch block of the loop body of processQueue().
chromeDispatchCatch(s, t) ==
  chromeDispatchLoop(IF s.task[t].cancelled THEN s
                     ELSE settle(s, t, "rej_error"))

\* getAvailableTab() up to its first await.
chromeGetAvailableTab(s, t) ==
  IF ~s.ready
    THEN chromeDispatchCatch(s, t)
  ELSE IF FreeTabs(s, "google") # {}
    THEN chromeAfterGetAvailableTab(s, t, FirstFree(s, "google"))
  ELSE IF Len(s.tabPool) < ChromeMaxTabs
    THEN IF ~s.googleContext
           THEN chromeDispatchCatch(s, t)
           ELSE [s EXCEPT !.disp = [pc |-> "newPage", t |-> t]]
    ELSE [s EXCEPT !.disp = [pc |-> "waitTab", t |-> t]]

\* One iteration of the while loop of processQueue() and the ones after it,
\* until the pass suspends in an await or ends.
chromeDispatchLoop(s) ==
  LET validTasks == SelectSeq(s.taskQueue, LAMBDA t : ~s.task[t].cancelled)
      cancelledTasks == SelectSeq(s.taskQueue, LAMBDA t : s.task[t].cancelled)
      s1 == [settleAll(s, cancelledTasks, "rej_cancelled")
               EXCEPT !.taskQueue = validTasks]
      t == Head(validTasks)
      s2 == [s1 EXCEPT !.taskQueue = Tail(validTasks)]
  IN IF validTasks = <<>>
       THEN [s1 EXCEPT !.processingQueue = FALSE, !.disp = IdleDisp]
       ELSE chromeGetAvailableTab(s2, t)

chromeProcessQueue(s) ==
  IF s.processingQueue \/ s.taskQueue = <<>> \/ s.googleContextResetting
    THEN s
    ELSE chromeDispatchLoop([s EXCEPT !.processingQueue = TRUE])

\* getAvailableTab() resumed after `await this.context.newPage()`.
chromeNewPage(s, ok) ==
  IF ok
    THEN LET s1 == chromePushTab(s)
         IN chromeAfterGetAvailableTab(s1, s.disp.t, Len(s1.tabPool))
    ELSE chromeDispatchCatch(s, s.disp.t)

\* checkAvailability() of the wait of getAvailableTab() finds a tab.
chromeCheckAvailability(s) ==
  chromeAfterGetAvailableTab(s, s.disp.t, FirstFree(s, "google"))

\* search(): both throws leave the context as it is.
chromeSearch(s, e) ==
  IF ~s.ready \/ Len(s.taskQueue) >= ChromeMaxQueueSize
    THEN s
    ELSE LET t == s.nextId + 1
         IN chromeProcessQueue(
              [s EXCEPT !.nextId = t,
                        !.task[t] = [NewTaskRec EXCEPT !.engine = e,
                                                       !.handle = "pending"],
                        !.taskQueue = Append(@, t)])

\* The cancel closure returned by search().
chromeCancel(s, t) ==
  IF t \in Range(s.taskQueue)
    THEN [s EXCEPT !.task[t].cancelled = TRUE]
    ELSE s

\* cancelAllRequests(): the tasks of the queue are flagged and rejected, the
\* ones waiting for a reset are dropped.
chromeCancelAllRequests(s) ==
  LET s1 == [s EXCEPT !.task = [t \in DOMAIN @ |->
                IF t \in Range(s.taskQueue)
                  THEN [@[t] EXCEPT !.cancelled = TRUE]
                  ELSE @[t]]]
      s2 == settleAll(s1, s.taskQueue, "rej_all_cancelled")
  IN [s2 EXCEPT !.taskQueue = <<>>, !.pendingGoogleTasks = <<>>]

\* resetContext() up to its first await.
chromeResetContext(s) ==
  IF s.googleContextResetting
    THEN s
    ELSE [s EXCEPT !.googleContextResetting = TRUE, !.resetPc = "closing"]

\* The finally block of resetContext().
chromeResetFinally(s) ==
  chromeProcessQueue([s EXCEPT !.googleContextResetting = FALSE,
                               !.resetPc = "idle"])

\* resetContext() from `this.tabPool = []` to the await of newPage(): the
\* pages were closed; ok: the context was closed and a new one created.
chromeResetClosed(s, ok) ==
  LET s1 == [s EXCEPT !.tabPool = <<>>]
  IN IF ok THEN [s1 EXCEPT !.googleContext = TRUE, !.resetPc = "creating"]
           ELSE chromeResetFinally(s1)

RECURSIVE chromeUnshiftAll(_, _, _)
\* for (const task of pendingTasks) if (!task.cancelled) unshift(task)
chromeUnshiftAll(s, q, pending) ==
  IF pending = <<>> THEN q
  ELSE chromeUnshiftAll(s,
         IF s.task[Head(pending)].cancelled THEN q ELSE <<Head(pending)>> \o q,
         Tail(pending))

\* resetContext() resumed after newPage() and goto().
chromeResetCreated(s, ok) ==
  IF ok
    THEN chromeResetFinally(
           [chromePushTab(s) EXCEPT
              !.taskQueue = chromeUnshiftAll(s, @, s.pendingGoogleTasks),
              !.pendingGoogleTasks = <<>>])
    ELSE chromeResetFinally(s)

\* executeSearch() from the await that decides its outcome to the finally
\* callback of processQueue(): "ok", "captcha" or "error".
chromeExecuteSearch(s, t, o) ==
  LET c == s.task[t].cancelled
      s1 == CASE c -> s
              [] o = "ok" -> settle(s, t, "resolved")
              [] o = "captcha" ->
                   IF s.task[t].retries < MAX_RETRIES
                     THEN chromeResetContext(
                            [s EXCEPT !.task[t].retries = @ + 1,
                                      !.pendingGoogleTasks = Append(@, t)])
                     ELSE settle(s, t, "rej_max_retries")
              [] OTHER -> settle(s, t, "rej_error")
  IN releaseTab(s1, t)

\* cleanupIdleTabs() without `idleTabs.slice(0, idleTabs.length - 1)`: every
\* idle tab is closed.
chromeTabsToCloseAll(s, idle) ==
  LET idleTabs == { i \in idle : ~s.tabPool[i].busy }
  IN IF Len(s.tabPool) > 1 /\ idleTabs # {} THEN idleTabs ELSE {}

\* Pool positions cleanupIdleTabs() closes when the tabs at the positions
\* idle were last used more than a minute ago.
chromeTabsToClose(s, idle) ==
  LET idleTabs == { i \in idle : ~s.tabPool[i].busy }
  IN IF Len(s.tabPool) > 1 /\ idleTabs # {}
       THEN idleTabs \ {CHOOSE i \in idleTabs : \A j \in idleTabs : j <= i}
       ELSE {}

\* cleanupIdleTabs(): page.close() is called on every tab to close.
chromeCleanupIdleTabs(s, idle) ==
  [s EXCEPT !.tabPool = [i \in 1..Len(@) |->
     IF i \in chromeTabsToClose(s, idle)
       THEN [@[i] EXCEPT !.closing = TRUE]
       ELSE @[i]]]

\* The callback of cleanupIdleTabs() for the tab at position i resumed after
\* `await tab.page.close()`.
chromeTabClosed(s, i, ok) ==
  IF ok
    THEN [s EXCEPT !.tabPool = removeAt(@, {i}, 1)]
    ELSE [s EXCEPT !.tabPool[i].closing = FALSE]

InitChrome ==
  /\ browser = TRUE
  /\ browserHealthy = FALSE
  /\ browserInitializing = FALSE
  /\ initializing = "null"
  /\ ready = FALSE
  /\ googleContext = FALSE
  /\ googleContextResetting = FALSE
  /\ cleanUpIntervalId = FALSE
  /\ tabPool = <<>>
  /\ taskQueue = <<>>
  /\ pendingGoogleTasks = <<>>
  /\ task = [t \in ChromeTaskIds |-> NewTaskRec]
  /\ nextId = 0
  /\ processingQueue = FALSE
  /\ disp = IdleDisp
  /\ executing = {}
  /\ launchPc = "initializing"
  /\ resetPc = "idle"
  /\ timers = NoTimers
  /\ searchWait = NoSearch
  /\ batch = [NoBatch EXCEPT !.acquiring = [t \in ChromeTaskIds |-> "none"],
                             !.got = [t \in ChromeTaskIds |-> 0]]
  /\ testTask = NoTask
  /\ extraction = NoExtraction
  /\ status = NoStatus
  /\ facade = NoFacade
  /\ hist = [t \in ChromeTaskIds |-> NewHist]
  /\ track = "chrome"

ChromeInitialize ==
  /\ launchPc = "initializing"
  /\ \E o \in {"ok", "noPage", "noContext"} : Commit(chromeInitialize(S, o))

ChromeSearch ==
  /\ nextId < ChromeMaxTasks
  /\ launchPc = "idle"
  /\ Commit(chromeSearch(S, GOOGLE))

ChromeCancel ==
  \E t \in ChromeTaskIds :
    /\ task[t].handle = "pending"
    /\ Commit(chromeCancel(S, t))

ChromeCancelAllRequests ==
  /\ launchPc = "idle"
  /\ Commit(chromeCancelAllRequests(S))

ChromeNewPage ==
  /\ disp.pc = "newPage"
  /\ \E ok \in BOOLEAN : Commit(chromeNewPage(S, ok))

ChromeCheckAvailability ==
  /\ disp.pc = "waitTab"
  /\ FreeTabs(S, "google") # {}
  /\ Commit(chromeCheckAvailability(S))

ChromeExecuteSearch ==
  \E t \in executing, o \in {"ok", "captcha", "error"} :
    /\ o \in {"ok", "captcha"} => TabOpen(S, t)
    /\ Commit(chromeExecuteSearch(S, t, o))

ChromeResetClosed ==
  /\ resetPc = "closing"
  /\ \E ok \in BOOLEAN : Commit(chromeResetClosed(S, ok))

ChromeResetCreated ==
  /\ resetPc = "creating"
  /\ \E ok \in BOOLEAN : Commit(chromeResetCreated(S, ok))

ChromeCleanupIdleTabs ==
  /\ ready
  /\ \E idle \in SUBSET (1..Len(tabPool)) : Commit(chromeCleanupIdleTabs(S, idle))

ChromeTabClosed ==
  \E i \in 1..Len(tabPool), ok \in BOOLEAN :
    /\ tabPool[i].closing
    /\ Commit(chromeTabClosed(S, i, ok))

NextChrome ==
  \/ ChromeInitialize
  \/ ChromeSearch
  \/ ChromeCancel
  \/ ChromeCancelAllRequests
  \/ ChromeNewPage
  \/ ChromeCheckAvailability
  \/ ChromeExecuteSearch
  \/ ChromeResetClosed
  \/ ChromeResetCreated
  \/ ChromeCleanupIdleTabs
  \/ ChromeTabClosed

SpecChrome == InitChrome /\ [][NextChrome]_vars

\* The execution of t ends on a captcha page.
C24_CaptchaSeen(t) ==
  /\ t \in executing
  /\ ~task[t].cancelled
  /\ TabOpen(S, t)
  /\ Commit(chromeExecuteSearch(S, t, "captcha"))

\* C24: a captcha page is not charged to the task: the step in which an
\* execution ends on a captcha page leaves the retries of the task as they
\* are and does not reject its handle.
C24_PoisoningNotCharged ==
  [][ \A t \in ChromeTaskIds :
        C24_CaptchaSeen(t) =>
          /\ task'[t].retries = task[t].retries
          /\ task'[t].handle = "pending" ]_vars

\* The execution of t ends in a connection error and the retry policy puts
\* the task back on the queue.
C25_Retried(t) ==
  /\ t \in executing
  /\ ~task[t].cancelled
  /\ task[t].retries < MAX_RETRIES
  /\ Commit(executeSearch(S, t, "conn"))

\* C25: a task re-enqueued by the retry policy stands in the queue before
\* every task of its priority that was already waiting.
C25_RetryToFront ==
  [][ \A t \in TaskIds :
        C25_Retried(t) =>
          \E i \in 1..Len(taskQueue') :
            /\ taskQueue'[i] = t
            /\ \A j \in 1..(i - 1) :
                 task'[taskQueue'[j]].priority # task'[t].priority ]_vars

\* The dispatcher has taken t off the queue and the creation of its tab
\* fails.
C26_AcquireFails(t) ==
  /\ disp.pc = "newPage"
  /\ disp.t = t
  /\ ~task[t].cancelled
  /\ task[t].engine = GOOGLE => ~googleContextResetting
  /\ \E o \in {"failContext", "failOther"}, rout \in RecoveryOutcomes :
       Commit(resumeNewPage(S, o, rout))

\* C26: a failure to acquire a tab for a task taken off the queue is
\* transient: the handle of a task whose retries are below MAX_RETRIES is
\* not rejected by it.
C26_AcquireFailureTransient ==
  [][ \A t \in TaskIds :
        (C26_AcquireFails(t) /\ task[t].retries < MAX_RETRIES) =>
          task'[t].handle = "pending" ]_vars

\* The wait of getAvailableTab() for task t ends.
C27_WaitEnds(t) ==
  /\ batch.acquiring[t] = "wait"
  /\ ~task[t].cancelled
  /\ \E timeout \in BOOLEAN :
       /\ acquireWaitPoll(S, t, timeout) # S
       /\ Commit(acquireWaitPoll(S, t, timeout))

\* C27: the wait for a tab of a saturated pool does not fail: when it ends,
\* the task is bound to a tab of its type that was free.
C27_AcquireSuspends ==
  [][ \A t \in BatchTaskIds :
        C27_WaitEnds(t) =>
          \E i \in FreeTabs(S, contextTypeOf(task[t].engine)) :
            /\ i <= Len(tabPool')
            /\ t \in tabPool'[i].users ]_vars

\* The dispatcher is suspended in the wait for a Google tab while a task of
\* another engine is queued and a default tab is free.
C28_Blocked ==
  /\ disp.pc = "waitTab"
  /\ task[disp.t].engine = GOOGLE
  /\ FreeTabs(S, "default") # {}
  /\ \E u \in Range(taskQueue) :
       task[u].engine # GOOGLE /\ ~task[u].cancelled

\* A step the dispatcher takes by itself: a pass resumed after an await, or
\* one started by a timer.
C28_DispatcherStep ==
  \/ FifoDispatchEnsure
  \/ FifoDispatchWaitTab
  \/ FifoDispatchNewPage
  \/ FifoTimerProcessQueue

\* C28: pools do not block each other: while the dispatcher waits for a tab
\* of the Google pool and a task of the other pool is queued with a tab of
\* its pool free, the dispatcher has a step to take that does not wait for
\* a running search to end.
C28_SessionsIndependent == C28_Blocked => ENABLED C28_DispatcherStep

\* The cleanup takes the tab at position i out of the pool.
C29_Evicts(i) ==
  /\ tabPool[i].closing
  /\ Commit(chromeTabClosed(S, i, TRUE))

\* C29: the idle cleanup never takes a busy tab out of the pool, a tab that
\* became busy while the cleanup was closing pages included.
C29_NoBusyEvicted ==
  [][ \A i \in 1..Len(tabPool) : C29_Evicts(i) => ~tabPool[i].busy ]_vars

\* A step of the idle cleanup: the call that picks the tabs and closes their
\* pages, or the callback that takes a closed tab out of the pool.
C30_Eviction ==
  \/ \E idle \in SUBSET (1..Len(tabPool)) :
       ready /\ Commit(chromeCleanupIdleTabs(S, idle))
  \/ \E i \in 1..Len(tabPool), ok \in BOOLEAN :
       tabPool[i].closing /\ Commit(chromeTabClosed(S, i, ok))

\* C30: the idle cleanup keeps a tab: no step of it empties a pool that had
\* a tab, and it never marks every tab of the pool for closing.
C30_KeepsOne ==
  [][ (C30_Eviction /\ Len(tabPool) >= 1) =>
        /\ Len(tabPool') >= 1
        /\ \E i \in 1..Len(tabPool') : ~tabPool'[i].closing ]_vars

\* The cleanup has closed the page of an idle tab and kept another tab.
C30_Witness ==
  /\ Len(tabPool) = 2
  /\ \E i, j \in 1..Len(tabPool) :
       /\ tabPool[i].closing /\ ~tabPool[i].busy
       /\ ~tabPool[j].closing /\ ~tabPool[j].busy

\* The tasks a pass has taken off the queue and not yet bound to a tab: they
\* stand in getAvailableTab().
C31_BetweenPopAndBind == { t \in BatchTaskIds : batch.acquiring[t] # "none" }

\* C31: single dispatcher: at most one task at a time is between being
\* taken off the queue and being bound to a tab.
C31_SingleDispatcher == Cardinality(C31_BetweenPopAndBind) <= 1

\* C32: the maxTabs arguments of the contexts that exist add up to at most
\* the maxTabs of the facade.
C32_CapacitySplit ==
  facade.pc = "ok" =>
    (IF facade.baseContext THEN facade.baseMaxTabs ELSE 0)
      + (IF facade.chromeContext THEN facade.chromeMaxTabs ELSE 0)
      <= facade.maxTabs

\* C33: tabs are not shared between the pools: a task runs on a tab of the
\* context type of its engine, a Google task on a tab of the Google context
\* and any other task on a default tab.
C33_SessionIsolation ==
  \A i \in 1..Len(tabPool) :
    \A t \in tabPool[i].users :
      tabPool[i].contextType = contextTypeOf(task[t].engine)

\* A Google task and a task of another engine run at the same time, each on
\* a tab of its own.
C33_Witness ==
  \E i, j \in 1..Len(tabPool) :
    /\ tabPool[i].contextType = "google"
    /\ tabPool[j].contextType = "default"
    /\ \E t \in tabPool[i].users : task[t].engine = GOOGLE
    /\ \E u \in tabPool[j].users : task[u].engine # GOOGLE

\* --------------------------------------------------------------- C34
\* The tabs of the default context, in pool order, with their busy flags
\* and users.
C34_OtherTabs(pool) == SelectSeq(pool, LAMBDA tb : tb.contextType # "google")

\* A step of resetGoogleContext(): its start, or its resumption after the
\* cooldown (recreation succeeding or failing, recoveryCheck() included).
C34_ResetStep ==
  \/ /\ timers.reset
     /\ ~googleContextResetting
     /\ Commit(resetGoogleContext([S EXCEPT !.timers.reset = FALSE]))
  \/ /\ resetPc = "cooldown"
     /\ \E o \in {"ok", "ctxFail", "testFail"}, rout \in RecoveryOutcomes :
          Commit(resumeReset(S, o, rout))

\* C34 - A reset is contained to its Session: a step of the reset of the
\* Google context leaves the tabs of the default context (membership, busy
\* flags, users), the queued tasks of the other engines (and their order)
\* and the running tasks of the other engines unchanged.
C34_ResetContained ==
  [][C34_ResetStep =>
       /\ C34_OtherTabs(tabPool') = C34_OtherTabs(tabPool)
       /\ SelectSeq(taskQueue', LAMBDA t : task'[t].engine # GOOGLE)
            = SelectSeq(taskQueue, LAMBDA t : task[t].engine # GOOGLE)
       /\ { t \in executing' : task'[t].engine # GOOGLE }
            = { t \in executing : task[t].engine # GOOGLE }
       /\ \A t \in TaskIds :
            (task[t].engine # GOOGLE
               /\ (t \in executing \/ t \in Range(taskQueue)))
              => task'[t] = task[t]]_vars

\* A reset is in its cooldown while a task of another engine runs on a busy
\* tab of the default context.
C34_Witness ==
  /\ googleContextResetting
  /\ resetPc = "cooldown"
  /\ \E i \in 1..Len(tabPool), t \in TaskIds :
       /\ tabPool[i].contextType = "default"
       /\ tabPool[i].busy
       /\ t \in tabPool[i].users
       /\ t \in executing
       /\ task[t].engine # GOOGLE

\* --------------------------------------------------------------- C35
\* Tasks are held while no reset is running or scheduled: the reset that
\* held them has ended in its catch block.
C35_HeldAfterFailedReset(t) ==
  /\ ~googleContextResetting
  /\ ~timers.reset
  /\ t \in Range(pendingGoogleTasks)
  /\ task[t].handle = "pending"

\* The browser restart scheduled by recoveryCheck(): closeBrowser(), then
\* launchBrowser().
C35_Restart ==
  /\ timers.restart
  /\ Commit(assignInitializing(closeBrowser([S EXCEPT !.timers.restart = FALSE])))

\* C35 - Failed recovery keeps held tasks: when the recreation of the Google
\* context has failed, the browser restart leaves the handle of every held
\* task unsettled, and the task stays held or goes back to the queue.
C35_HeldTasksKept ==
  [][\A t \in TaskIds :
       (C35_HeldAfterFailedReset(t) /\ C35_Restart) =>
         /\ task'[t].handle = "pending"
         /\ t \in Range(pendingGoogleTasks') \cup Range(taskQueue')]_vars

\* --------------------------------------------------------------- C36
\* The number of places that hold task t: its occurrences in the queue and
\* in the holding area, the dispatcher between pop and bind, and the tab
\* whose executeSearch() runs it.
C36_Occurrences(q, t) == Cardinality({ i \in 1..Len(q) : q[i] = t })

C36_Places(t) ==
  C36_Occurrences(taskQueue, t)
    + C36_Occurrences(pendingGoogleTasks, t)
    + (IF disp.pc # "idle" /\ disp.t = t THEN 1 ELSE 0)
    + (IF t \in executing THEN 1 ELSE 0)

\* C36 - Task conservation: every admitted task whose handle is not settled
\* is in exactly one place: the queue, the holding area, the dispatcher
\* between pop and bind, or a tab.
C36_TaskConservation ==
  \A t \in TaskIds : task[t].handle = "pending" => C36_Places(t) = 1

\* --------------------------------------------------------------- C37
\* The tabs of the Google context in a pool.
C37_GoogleTabs(pool) == SelectSeq(pool, LAMBDA tb : tb.contextType = "google")

\* The step in which resetGoogleContext() resumes after its cooldown,
\* creates the new context, passes the test and ends in its try block.
C37_ResetCompletes ==
  /\ resetPc = "cooldown"
  /\ \E rout \in RecoveryOutcomes :
       /\ runGoogleContextTestOk(createGoogleContext(S, TRUE), TRUE)
       /\ Commit(resumeReset(S, "ok", rout))

\* C37 - No stale workers after a reset: createGoogleContext() puts exactly
\* one page of the context it creates on the pool, so when a reset has
\* completed the pool holds exactly one Google tab, the first page of the
\* one context the Session then has; a tab pushed by a call that was in
\* flight when the reset started is not among them.
C37_NoStaleWorkers ==
  [][C37_ResetCompletes => Len(C37_GoogleTabs(tabPool')) = 1]_vars

\* --------------------------------------------------------------- C38
C38_Settled(t) == task[t].handle \notin {"new", "pending"}

\* C38 - Terminal states are absorbing: a task whose handle is settled is
\* not in the queue, not in the holding area, not held by the dispatcher and
\* not bound to a tab.
C38_TerminalAbsorbing ==
  \A t \in DOMAIN task :
    C38_Settled(t) =>
      /\ t \notin Range(taskQueue)
      /\ t \notin Range(pendingGoogleTasks)
      /\ ~(disp.pc # "idle" /\ disp.t = t)
      /\ t \notin executing
      /\ ~TabOpen(S, t)

\* A task was rejected by cancelAllRequests() while it was queued or held,
\* and another one was resolved by its executeSearch().
C38_Witness ==
  \E t, u \in TaskIds :
    /\ task[t].handle = "rej_all_cancelled"
    /\ task[u].handle = "resolved"

\* --------------------------------------------------------------- C39
\* The step in which a closeBrowser() called by a client returns from its
\* try block, the browser closed.
C39_ShutdownReturns ==
  /\ facade.closeBy = "client"
  /\ facade.closePc # "idle"
  /\ facade'.closePc = "idle"
  /\ ~facade'.browser

\* C39 - Quiescence after shutdown: when closeBrowser() called by a client
\* has completed, no timer set before it is left that launches the browser
\* again.
C39_QuietAfterShutdown ==
  [][C39_ShutdownReturns =>
       ~(facade'.relaunchTimer /\ facade'.launchPc = "idle")]_vars

\* --------------------------------------------------------------- C40
\* Weak fairness of ResetCooldown: the timer of the cooldown fires and the
\* reset goes on.  The action is enabled exactly when its guard holds, and
\* the formula is WF_vars(ResetCooldown) with that guard in the place of
\* ENABLED <<ResetCooldown>>_vars.
CooldownElapses ==
  ([]<>(resetPc # "cooldown")) \/ ([]<><<ResetCooldown>>_vars)

\* Weak fairness of Launch, written the same way: connect() answers, with
\* success or with an error.
ConnectAnswers ==
  ([]<>(launchPc # "connecting")) \/ ([]<><<Launch>>_vars)

FairReset == CooldownElapses /\ ConnectAnswers

\* The claim is about the program state alone: no history is recorded.
SpecReset == InitStatus /\ [][Next]_vars /\ FairReset

\* C40 - A reset always ends: every resetGoogleContext() that has set
\* googleContextResetting eventually reaches its finally block, which sets
\* the flag to false, whether the recreation succeeds or fails.
C40_ResetEnds == googleContextResetting ~> ~googleContextResetting

\* A reset has ended in its catch block: the browser is marked unhealthy
\* and the held tasks are still held, with the flag false again.
C40_Witness ==
  /\ ~googleContextResetting
  /\ resetPc = "idle"
  /\ ~timers.reset
  /\ ~browserHealthy
  /\ pendingGoogleTasks # <<>>

====
